---- MODULE Spec2Model ----
(***************************************************************************)
(* Model of the todo request/response mapper (core/src/client.rs) and of   *)
(* its C-ABI marshaling layer (ffi/src/lib.rs, ffi/src/types.rs).          *)
(*                                                                         *)
(* The heap holds every allocation the marshaling layer hands out as a    *)
(* raw pointer (Box::into_raw, CString::into_raw, mem::forget of a Vec).   *)
(* Values owned by Rust (String, Vec, Box that is never leaked) are freed  *)
(* by the compiler and are values of the model, not heap cells.            *)
(*                                                                         *)
(* Text is a sequence of string tokens; the token "NUL" is the character   *)
(* U+0000, which a Rust String may hold and a C string may not.            *)
(***************************************************************************)
EXTENDS Integers, Sequences, FiniteSets, TLC

VARIABLES
    heap,       \* live raw allocations: address -> allocation record
    client,     \* the caller's handle: NULL or the address of an FfiTodoClient
    requests,   \* request pointers returned by todo_build_* and not yet released
    results,    \* envelope pointers returned by todo_parse_* and not yet released
    badFree,    \* TRUE once a release freed an address that was not live
    mapper,     \* the TodoClient value a caller of the core crate holds
    db,         \* the mock server's store: identifier -> Todo
    script,     \* the lifecycle test: its position, what it sent and what it got
    threads,    \* threads of a C caller: the boundary call each one is in
    lock,       \* the RwLock of the server's store: its writer and its readers
    serving,    \* requests the server is handling: the step each handler is at
    last        \* the most recent call: arguments, mapper result, return

vars == <<heap, client, requests, results, badFree, mapper, db, script, threads, lock,
          serving, last>>

\* ------------------------------------------------------------------ bounds
\* Largest number of requests plus envelopes the caller holds unreleased.
MaxOutstanding == 1
\* Largest number of live allocations that no pointer the caller holds owns.
MaxLeaked == 1
\* Number of addresses in one arena of the allocator; no call allocates more.
ArenaSize == 10

\* The null pointer.
NULL == 0
\* The allocator serves each call from an arena that holds no live cell.  One
\* arena for the handle, one per value the caller holds, one per leaked cell
\* and one for the call in progress are enough.
Arenas == 0..(MaxOutstanding + MaxLeaked + 2)
Addrs == 1..(ArenaSize * (MaxOutstanding + MaxLeaked + 3))
ArenaOf(a) == (a - 1) \div ArenaSize

\* The u16 status codes responses are drawn from.
STATUS_OK == 200
STATUS_CREATED == 201
STATUS_NO_CONTENT == 204
STATUS_NOT_FOUND == 404
STATUS_SERVER_ERROR == 500

\* --------------------------------------------------------------------- text
NUL == "NUL"
EmptyText == << >>

HasNul(s) == \E i \in 1..Len(s) : s[i] = NUL

\* A faulty trim that drops one trailing '/' only.
strip_suffix_once(s) ==
    IF Len(s) > 0 /\ s[Len(s)] = "/" THEN SubSeq(s, 1, Len(s) - 1) ELSE s

\* str::trim_end_matches('/'): drop every trailing '/'.
RECURSIVE trim_end_matches(_)
trim_end_matches(s) ==
    IF Len(s) > 0 /\ s[Len(s)] = "/"
    THEN trim_end_matches(SubSeq(s, 1, Len(s) - 1))
    ELSE s

\* A `*const c_char` argument: null, bytes that are not UTF-8, or valid text.
CNull == [ptr |-> "null", text |-> EmptyText]
CInvalid == [ptr |-> "invalid_utf8", text |-> EmptyText]
CText(s) == [ptr |-> "valid", text |-> s]

\* CStr::from_ptr(p).to_str().unwrap_or(""): invalid UTF-8 becomes "".
to_str_unwrap_or_empty(c) == IF c.ptr = "valid" THEN c.text ELSE EmptyText

\* --------------------------------------------------------------------- uuid
UUID1 == <<"00000000-0000-0000-0000-000000000001">>
UUID2 == <<"00000000-0000-0000-0000-000000000002">>
\* The same identifier as UUID1 in the un-hyphenated form parse_str accepts.
UUID1_SIMPLE == <<"00000000000000000000000000000001">>
\* Text is cut where the model needs a single character: here the first one.
NOT_A_UUID == <<"n", "ot-a-uuid">>

\* uuid::Uuid::parse_str: hyphenated and simple forms parse, the rest fail.
Uuid_parse_str(s) ==
    IF s = UUID1 \/ s = UUID1_SIMPLE THEN [ok |-> TRUE, uuid |-> 1]
    ELSE IF s = UUID2 THEN [ok |-> TRUE, uuid |-> 2]
    ELSE [ok |-> FALSE, uuid |-> 0]

\* Display of uuid::Error for a character that is no hex digit: the character
\* is written as it is, a NUL included.
Uuid_error_to_string(s) ==
    IF Len(s) = 0 THEN <<"invalid length: expected length 32 for simple format, found 0">>
    ELSE <<"invalid character: expected a hex digit or a hyphen, found ", s[1], " at 1">>

\* Uuid's Display: the canonical hyphenated lower-case form.
Uuid_to_string(u) ==
    IF u = 1 THEN UUID1
    ELSE IF u = 2 THEN UUID2
    ELSE <<"00000000-0000-0000-0000-000000000000">>

\* ------------------------------------------------------- transport and DTOs
\* The text of a response body, by what a JSON parser makes of it: empty,
\* not JSON, one JSON object with the members of an item, or a JSON array of
\* such objects.  A member string may hold the escape \u0000, which parses to
\* the character NUL.
EmptyBody == [shape |-> "empty", todos |-> << >>]
GarbageBody == [shape |-> "garbage", todos |-> << >>]
ObjectBody(t) == [shape |-> "object", todos |-> <<t>>]
ArrayBody(ts) == [shape |-> "array", todos |-> ts]

TodoJson(id, title, completed) == [id |-> id, title |-> title, completed |-> completed]

\* Result<_, ApiError> of the mapper.
ApiOk(todos) ==
    [kind |-> "Ok", status |-> 0, body |-> EmptyBody, msg |-> EmptyText, todos |-> todos]
ApiNotFound ==
    [kind |-> "NotFound", status |-> 0, body |-> EmptyBody, msg |-> EmptyText, todos |-> << >>]
ApiHttpError(status, body) ==
    [kind |-> "HttpError", status |-> status, body |-> body, msg |-> EmptyText, todos |-> << >>]
ApiDeserializationError(msg) ==
    [kind |-> "DeserializationError", status |-> 0, body |-> EmptyBody, msg |-> msg,
     todos |-> << >>]
NoResult ==
    [kind |-> "None", status |-> 0, body |-> EmptyBody, msg |-> EmptyText, todos |-> << >>]

\* The text of a serde_json error: the parser's own for a document of the wrong
\* shape, the identifier parser's (through de::Error::custom) for a bad id.
RECURSIVE serde_json_Error_to_string(_, _)
serde_json_Error_to_string(todos, i) ==
    IF i > Len(todos) THEN <<"expected value at line 1 column 1">>
    ELSE IF ~Uuid_parse_str(todos[i].id).ok
         THEN <<"UUID parsing failed: ">> \o Uuid_error_to_string(todos[i].id)
                  \o <<" at line 1 column 1">>
    ELSE serde_json_Error_to_string(todos, i + 1)

\* Deserialize for Todo: id through Uuid's parser, title and completed as given.
DeTodo(j) == [id |-> Uuid_parse_str(j.id).uuid, title |-> j.title, completed |-> j.completed]

\* serde_json::from_str::<Todo>
from_str_Todo(body) ==
    IF body.shape = "object" /\ Uuid_parse_str(body.todos[1].id).ok
    THEN ApiOk(<<DeTodo(body.todos[1])>>)
    ELSE ApiDeserializationError(
             serde_json_Error_to_string(IF body.shape = "object" THEN body.todos ELSE << >>, 1))

\* serde_json::from_str::<Vec<Todo>>
from_str_VecTodo(body) ==
    IF body.shape = "array"
       /\ \A i \in 1..Len(body.todos) : Uuid_parse_str(body.todos[i].id).ok
    THEN ApiOk([i \in 1..Len(body.todos) |-> DeTodo(body.todos[i])])
    ELSE ApiDeserializationError(
             serde_json_Error_to_string(IF body.shape = "array" THEN body.todos ELSE << >>, 1))

\* ------------------------------------------------------------------- mapper
TodoClient_new(base_url) == [base_url |-> trim_end_matches(base_url)]

NoBody == [some |-> FALSE, keys |-> << >>, title |-> EmptyText, completed |-> FALSE]
CONTENT_TYPE_JSON == <<[key |-> <<"content-type">>, value |-> <<"application/json">>]>>

\* serde_json::to_string(&CreateTodo): both members, always.
to_string_CreateTodo(input) ==
    [some |-> TRUE, keys |-> <<"title", "completed">>,
     title |-> input.title, completed |-> input.completed]

\* A faulty encoder that writes an absent field as a key (holding null).
to_string_UpdateTodo_with_nulls(input) ==
    [some |-> TRUE, keys |-> <<"title", "completed">>,
     title |-> IF input.title.some THEN input.title.val ELSE EmptyText,
     completed |-> input.completed.some /\ input.completed.val]

\* serde_json::to_string(&UpdateTodo): skip_serializing_if = Option::is_none.
to_string_UpdateTodo(input) ==
    [some |-> TRUE,
     keys |-> (IF input.title.some THEN <<"title">> ELSE << >>)
              \o (IF input.completed.some THEN <<"completed">> ELSE << >>),
     title |-> IF input.title.some THEN input.title.val ELSE EmptyText,
     completed |-> input.completed.some /\ input.completed.val]

build_list_todos(self) ==
    [method |-> "Get", path |-> self.base_url \o <<"/todos">>,
     headers |-> << >>, body |-> NoBody]

build_get_todo(self, id) ==
    [method |-> "Get", path |-> self.base_url \o <<"/todos/">> \o Uuid_to_string(id),
     headers |-> << >>, body |-> NoBody]

build_create_todo(self, input) ==
    [method |-> "Post", path |-> self.base_url \o <<"/todos">>,
     headers |-> CONTENT_TYPE_JSON, body |-> to_string_CreateTodo(input)]

\* A faulty build_update_todo that sends the update as a POST.
build_update_todo_as_post(self, id, input) ==
    [method |-> "Post", path |-> self.base_url \o <<"/todos/">> \o Uuid_to_string(id),
     headers |-> CONTENT_TYPE_JSON, body |-> to_string_UpdateTodo(input)]

build_update_todo(self, id, input) ==
    [method |-> "Put", path |-> self.base_url \o <<"/todos/">> \o Uuid_to_string(id),
     headers |-> CONTENT_TYPE_JSON, body |-> to_string_UpdateTodo(input)]

build_delete_todo(self, id) ==
    [method |-> "Delete", path |-> self.base_url \o <<"/todos/">> \o Uuid_to_string(id),
     headers |-> << >>, body |-> NoBody]

\* A faulty check_status that takes every 2xx status for the expected one.
check_status_any_2xx(response, expected) ==
    IF response.status \in 200..299 THEN ApiOk(<< >>)
    ELSE IF response.status = STATUS_NOT_FOUND THEN ApiNotFound
    ELSE ApiHttpError(response.status, response.body)

\* Map non-success status codes to the ApiError variant.
check_status(response, expected) ==
    IF response.status = expected THEN ApiOk(<< >>)
    ELSE IF response.status = STATUS_NOT_FOUND THEN ApiNotFound
    ELSE ApiHttpError(response.status, response.body)

parse_list_todos(self, response) ==
    LET st == check_status(response, STATUS_OK)
    IN  IF st.kind # "Ok" THEN st ELSE from_str_VecTodo(response.body)

\* A faulty parse_get_todo that deserializes the body before it checks the status.
parse_get_todo_body_first(self, response) ==
    LET r == from_str_Todo(response.body)
    IN  IF r.kind # "Ok" THEN r
        ELSE LET st == check_status(response, STATUS_OK)
             IN  IF st.kind # "Ok" THEN st ELSE r

parse_get_todo(self, response) ==
    LET st == check_status(response, STATUS_OK)
    IN  IF st.kind # "Ok" THEN st ELSE from_str_Todo(response.body)

parse_create_todo(self, response) ==
    LET st == check_status(response, STATUS_CREATED)
    IN  IF st.kind # "Ok" THEN st ELSE from_str_Todo(response.body)

parse_update_todo(self, response) ==
    LET st == check_status(response, STATUS_OK)
    IN  IF st.kind # "Ok" THEN st ELSE from_str_Todo(response.body)

\* A faulty parse_delete_todo that requires the body of a 204 to be an item.
parse_delete_todo_parsing_body(self, response) ==
    LET st == check_status(response, STATUS_NO_CONTENT)
    IN  IF st.kind # "Ok" THEN st
        ELSE IF from_str_Todo(response.body).kind = "Ok" THEN ApiOk(<< >>)
        ELSE from_str_Todo(response.body)

parse_delete_todo(self, response) ==
    LET st == check_status(response, STATUS_NO_CONTENT)
    IN  IF st.kind # "Ok" THEN st ELSE ApiOk(<< >>)

\* --------------------------------------------------------------------- heap
\* The allocator serves a call from one arena; during the call the heap
\* carries the arena at index NULL, where no allocation can live.
NextAddr(h) ==
    CHOOSE a \in Addrs :
        /\ ArenaOf(a) = h[NULL].arena
        /\ a \notin DOMAIN h
        /\ \A b \in Addrs : (ArenaOf(b) = h[NULL].arena /\ b < a) => b \in DOMAIN h

\* Box::into_raw / CString::into_raw / mem::forget: a cell the compiler no longer frees.
Alloc(h, cell) ==
    LET a == NextAddr(h)
    IN  [heap |-> [x \in DOMAIN h \cup {a} |-> IF x = a THEN cell ELSE h[x]], addr |-> a]

\* The heap as a call sees it: it allocates in the lowest arena without a live cell.
InCall(h) ==
    LET arena == CHOOSE k \in Arenas :
                    /\ \A a \in DOMAIN h : ArenaOf(a) # k
                    /\ \A j \in Arenas : j < k => \E a \in DOMAIN h : ArenaOf(a) = j
    IN  [a \in DOMAIN h \cup {NULL} |->
            IF a = NULL THEN [kind |-> "arena", arena |-> arena] ELSE h[a]]

\* The live cells once the call has returned.
AfterCall(h) == [a \in DOMAIN h \ {NULL} |-> h[a]]

\* Heap cells.
CStringCell(s) == [kind |-> "CString", str |-> s]
JsonCell(b) == [kind |-> "CStringJson", json |-> b]
MsgCell(m) == [kind |-> "CStringMsg", msg |-> m]

\* Outcome of a marshaling step: the heap it leaves, the pointer it returns,
\* and whether it unwound with a panic (the heap then holds what it leaked).
Done(h, p) == [heap |-> h, ret |-> p, panicked |-> FALSE, caught |-> FALSE]
Panicked(h) == [heap |-> h, ret |-> NULL, panicked |-> TRUE, caught |-> FALSE]

\* catch_unwind(..).unwrap_or(null_mut()) of the build functions.
catch_unwind_or_null(r) ==
    IF r.panicked THEN [Done(r.heap, NULL) EXCEPT !.caught = TRUE] ELSE r

\* ---------------------------------------------------------- FfiHttpRequest
\* The map over req.headers: key and value of each header as raw C strings.
RECURSIVE from_core_headers(_, _, _, _)
from_core_headers(h, headers, i, acc) ==
    IF i > Len(headers) THEN [heap |-> h, hdrs |-> acc, panicked |-> FALSE]
    ELSE IF HasNul(headers[i].key) THEN [heap |-> h, hdrs |-> acc, panicked |-> TRUE]
    ELSE LET k == Alloc(h, CStringCell(headers[i].key))
         IN  IF HasNul(headers[i].value)
             THEN [heap |-> k.heap, hdrs |-> acc, panicked |-> TRUE]
             ELSE LET v == Alloc(k.heap, CStringCell(headers[i].value))
                  IN  from_core_headers(v.heap, headers, i + 1,
                                        Append(acc, [key |-> k.addr, value |-> v.addr]))

\* FfiHttpRequest::from_core.  The body is serde_json output, which escapes
\* control characters, so CString::new(b) cannot meet a NUL there.
from_core(h, req) ==
    IF HasNul(req.path) THEN Panicked(h)
    ELSE
    LET path == Alloc(h, CStringCell(req.path))
        body == IF req.body.some
                THEN Alloc(path.heap, JsonCell(req.body))
                ELSE [heap |-> path.heap, addr |-> NULL]
        hs == IF Len(req.headers) = 0
              THEN [heap |-> body.heap, hdrs |-> << >>, panicked |-> FALSE]
              ELSE from_core_headers(body.heap, req.headers, 1, << >>)
    IN  IF hs.panicked THEN Panicked(hs.heap)
        ELSE
        LET headers == IF Len(req.headers) = 0
                       THEN [heap |-> hs.heap, addr |-> NULL]
                       ELSE Alloc(hs.heap, [kind |-> "Vec<FfiHeader>", hdrs |-> hs.hdrs])
            ffi_req == Alloc(headers.heap,
                             [kind |-> "FfiHttpRequest", method |-> req.method,
                              path |-> path.addr, headers |-> headers.addr,
                              headers_len |-> Len(req.headers), body |-> body.addr])
        IN  Done(ffi_req.heap, ffi_req.addr)

\* ----------------------------------------------------------- FfiTodoResult
Envelope(code, message, status, tag, data) ==
    [kind |-> "FfiTodoResult", error_code |-> code, error_message |-> message,
     http_status |-> status, data_tag |-> tag, data |-> data]

Message(fmt, status, body) == [fmt |-> fmt, status |-> status, body |-> body]

\* FfiTodoResult::ok_todo
ok_todo(h, todo) ==
    LET id == Alloc(h, CStringCell(Uuid_to_string(todo.id)))
    IN  IF HasNul(todo.title) THEN Panicked(id.heap)
        ELSE
        LET title == Alloc(id.heap, CStringCell(todo.title))
            ffi_todo == Alloc(title.heap,
                              [kind |-> "FfiTodo", id |-> id.addr, title |-> title.addr,
                               completed |-> todo.completed])
            result == Alloc(ffi_todo.heap, Envelope("Ok", NULL, 0, "Todo", ffi_todo.addr))
        IN  Done(result.heap, result.addr)

\* The map over todos in ok_todo_list: id then title of each item, in order.
RECURSIVE ok_todo_list_items(_, _, _, _)
ok_todo_list_items(h, todos, i, acc) ==
    IF i > Len(todos) THEN [heap |-> h, elems |-> acc, panicked |-> FALSE]
    ELSE LET id == Alloc(h, CStringCell(Uuid_to_string(todos[i].id)))
         IN  IF HasNul(todos[i].title)
             THEN [heap |-> id.heap, elems |-> acc, panicked |-> TRUE]
             ELSE LET title == Alloc(id.heap, CStringCell(todos[i].title))
                  IN  ok_todo_list_items(title.heap, todos, i + 1,
                          Append(acc, [id |-> id.addr, title |-> title.addr,
                                       completed |-> todos[i].completed]))

\* FfiTodoResult::ok_todo_list
ok_todo_list(h, todos) ==
    LET ffi_todos == ok_todo_list_items(h, todos, 1, << >>)
    IN  IF ffi_todos.panicked THEN Panicked(ffi_todos.heap)
        ELSE
        LET items == IF Len(ffi_todos.elems) = 0
                     THEN [heap |-> ffi_todos.heap, addr |-> NULL]
                     ELSE Alloc(ffi_todos.heap,
                                [kind |-> "Vec<FfiTodo>", elems |-> ffi_todos.elems])
            ffi_list == Alloc(items.heap,
                              [kind |-> "FfiTodoList", items |-> items.addr,
                               len |-> Len(todos)])
            result == Alloc(ffi_list.heap, Envelope("Ok", NULL, 0, "TodoList", ffi_list.addr))
        IN  Done(result.heap, result.addr)

\* A faulty ok_empty that leaves the tag of a single item on an envelope without data.
ok_empty_tagged_todo(h) ==
    LET result == Alloc(h, Envelope("Ok", NULL, 0, "Todo", NULL))
    IN  Done(result.heap, result.addr)

\* FfiTodoResult::ok_empty
ok_empty(h) ==
    LET result == Alloc(h, Envelope("Ok", NULL, 0, "None", NULL))
    IN  Done(result.heap, result.addr)

\* Display for ApiError, and the (code, status) of FfiTodoResult::from_error.
ApiError_to_string(err) ==
    IF err.kind = "NotFound" THEN Message(<<"resource not found">>, 0, EmptyBody)
    ELSE IF err.kind = "HttpError" THEN Message(<<"HTTP {status}: {body}">>, err.status, err.body)
    ELSE IF err.kind = "DeserializationError"
         THEN Message(<<"deserialization failed: ">> \o err.msg, 0, EmptyBody)
    ELSE Message(<<"serialization failed: ">> \o err.msg, 0, EmptyBody)

\* FfiTodoResult::from_error.  The body of an http-error came in as a C string
\* and holds no NUL; the message of a deserialization error can hold one.
from_error(h, err) ==
    LET error_code == IF err.kind = "NotFound" THEN "NotFound"
                      ELSE IF err.kind = "HttpError" THEN "Http"
                      ELSE IF err.kind = "DeserializationError" THEN "Deserialization"
                      ELSE "Serialization"
        http_status == IF err.kind = "NotFound" THEN STATUS_NOT_FOUND
                       ELSE IF err.kind = "HttpError" THEN err.status
                       ELSE 0
        text == ApiError_to_string(err)
    IN  IF HasNul(text.fmt) THEN Panicked(h)
        ELSE
        LET msg == Alloc(h, MsgCell(text))
            result == Alloc(msg.heap,
                            Envelope(error_code, msg.addr, http_status, "None", NULL))
        IN  Done(result.heap, result.addr)

\* A faulty null_arg that returns an error envelope without a message.
null_arg_without_message(h, name) ==
    LET result == Alloc(h, Envelope("NullArg", NULL, 0, "None", NULL))
    IN  Done(result.heap, result.addr)

\* FfiTodoResult::null_arg
null_arg(h, name) ==
    LET msg == Alloc(h, MsgCell(Message(<<"null argument: ", name>>, 0, EmptyBody)))
        result == Alloc(msg.heap, Envelope("NullArg", msg.addr, 0, "None", NULL))
    IN  Done(result.heap, result.addr)

\* FfiTodoResult::panic
FfiTodoResult_panic(h, text) ==
    LET msg == Alloc(h, MsgCell(Message(<<text>>, 0, EmptyBody)))
        result == Alloc(msg.heap, Envelope("Panic", msg.addr, 0, "None", NULL))
    IN  Done(result.heap, result.addr)

\* A faulty barrier that lets the panic of a parse function through.
catch_unwind_or_panic_missing(r, text) == r

\* catch_unwind(..).unwrap_or_else(|_| FfiTodoResult::panic(..)) of the parse functions.
catch_unwind_or_panic(r, text) ==
    IF r.panicked THEN [FfiTodoResult_panic(r.heap, text) EXCEPT !.caught = TRUE] ELSE r

\* ------------------------------------------------------- extern "C" surface
\* Each extern function as a function of the heap and its arguments.

todo_client_new(h, base_url) ==
    IF base_url.ptr = "null" THEN Done(h, NULL)
    ELSE LET url == to_str_unwrap_or_empty(base_url)
             c == Alloc(h, [kind |-> "FfiTodoClient", inner |-> TodoClient_new(url)])
         IN  Done(c.heap, c.addr)

\* A faulty todo_build_list_todos that keeps the path it built in the handle.
todo_build_list_todos_caching(h, c) ==
    catch_unwind_or_null(
        IF c = NULL THEN Done(h, NULL)
        ELSE LET req == build_list_todos(h[c].inner)
             IN  from_core([h EXCEPT ![c].inner.base_url = req.path], req))

todo_build_list_todos(h, c) ==
    catch_unwind_or_null(
        IF c = NULL THEN Done(h, NULL)
        ELSE from_core(h, build_list_todos(h[c].inner)))

todo_build_get_todo(h, c, id) ==
    catch_unwind_or_null(
        IF c = NULL \/ id.ptr = "null" THEN Done(h, NULL)
        ELSE LET uuid == Uuid_parse_str(to_str_unwrap_or_empty(id))
             IN  IF ~uuid.ok THEN Done(h, NULL)
                 ELSE from_core(h, build_get_todo(h[c].inner, uuid.uuid)))

todo_build_create_todo(h, c, title, completed) ==
    catch_unwind_or_null(
        IF c = NULL \/ title.ptr = "null" THEN Done(h, NULL)
        ELSE LET input == [title |-> to_str_unwrap_or_empty(title), completed |-> completed]
             IN  from_core(h, build_create_todo(h[c].inner, input)))

\* A faulty todo_build_update_todo that reads every non-zero flag but -1 as true.
todo_build_update_todo_nonzero_true(h, c, id, title, completed) ==
    catch_unwind_or_null(
        IF c = NULL \/ id.ptr = "null" THEN Done(h, NULL)
        ELSE LET uuid == Uuid_parse_str(to_str_unwrap_or_empty(id))
                 title_opt == IF title.ptr = "null"
                              THEN [some |-> FALSE, val |-> EmptyText]
                              ELSE [some |-> TRUE, val |-> to_str_unwrap_or_empty(title)]
                 completed_opt == IF completed = 0 THEN [some |-> TRUE, val |-> FALSE]
                                  ELSE IF completed = -1 THEN [some |-> FALSE, val |-> FALSE]
                                  ELSE [some |-> TRUE, val |-> TRUE]
                 input == [title |-> title_opt, completed |-> completed_opt]
             IN  IF ~uuid.ok THEN Done(h, NULL)
                 ELSE from_core(h, build_update_todo(h[c].inner, uuid.uuid, input)))

todo_build_update_todo(h, c, id, title, completed) ==
    catch_unwind_or_null(
        IF c = NULL \/ id.ptr = "null" THEN Done(h, NULL)
        ELSE LET uuid == Uuid_parse_str(to_str_unwrap_or_empty(id))
                 title_opt == IF title.ptr = "null"
                              THEN [some |-> FALSE, val |-> EmptyText]
                              ELSE [some |-> TRUE, val |-> to_str_unwrap_or_empty(title)]
                 completed_opt == IF completed = 0 THEN [some |-> TRUE, val |-> FALSE]
                                  ELSE IF completed = 1 THEN [some |-> TRUE, val |-> TRUE]
                                  ELSE [some |-> FALSE, val |-> FALSE]
                 input == [title |-> title_opt, completed |-> completed_opt]
             IN  IF ~uuid.ok THEN Done(h, NULL)
                 ELSE from_core(h, build_update_todo(h[c].inner, uuid.uuid, input)))

todo_build_delete_todo(h, c, id) ==
    catch_unwind_or_null(
        IF c = NULL \/ id.ptr = "null" THEN Done(h, NULL)
        ELSE LET uuid == Uuid_parse_str(to_str_unwrap_or_empty(id))
             IN  IF ~uuid.ok THEN Done(h, NULL)
                 ELSE from_core(h, build_delete_todo(h[c].inner, uuid.uuid)))

\* A `*const FfiHttpResponse` argument: null, or a descriptor the caller filled.
NullResponse == [ptr |-> "null", status |-> 0, body |-> [ptr |-> "null", doc |-> EmptyBody]]
Response(status, body) == [ptr |-> "valid", status |-> status, body |-> body]
BNull == [ptr |-> "null", doc |-> EmptyBody]
BInvalid == [ptr |-> "invalid_utf8", doc |-> EmptyBody]
BText(doc) == [ptr |-> "valid", doc |-> doc]

\* ffi_response_to_core: a null or non-UTF-8 body becomes the empty string.
ffi_response_to_core(resp) ==
    [status |-> resp.status, headers |-> << >>,
     body |-> IF resp.body.ptr = "valid" THEN resp.body.doc ELSE EmptyBody]

todo_parse_list_todos(h, c, response) ==
    catch_unwind_or_panic(
        IF c = NULL THEN null_arg(h, "client")
        ELSE IF response.ptr = "null" THEN null_arg(h, "response")
        ELSE LET r == parse_list_todos(h[c].inner, ffi_response_to_core(response))
             IN  IF r.kind = "Ok" THEN ok_todo_list(h, r.todos) ELSE from_error(h, r),
        "panic in todo_parse_list_todos")

todo_parse_get_todo(h, c, response) ==
    catch_unwind_or_panic(
        IF c = NULL THEN null_arg(h, "client")
        ELSE IF response.ptr = "null" THEN null_arg(h, "response")
        ELSE LET r == parse_get_todo(h[c].inner, ffi_response_to_core(response))
             IN  IF r.kind = "Ok" THEN ok_todo(h, r.todos[1]) ELSE from_error(h, r),
        "panic in todo_parse_get_todo")

todo_parse_create_todo(h, c, response) ==
    catch_unwind_or_panic(
        IF c = NULL THEN null_arg(h, "client")
        ELSE IF response.ptr = "null" THEN null_arg(h, "response")
        ELSE LET r == parse_create_todo(h[c].inner, ffi_response_to_core(response))
             IN  IF r.kind = "Ok" THEN ok_todo(h, r.todos[1]) ELSE from_error(h, r),
        "panic in todo_parse_create_todo")

todo_parse_update_todo(h, c, response) ==
    catch_unwind_or_panic(
        IF c = NULL THEN null_arg(h, "client")
        ELSE IF response.ptr = "null" THEN null_arg(h, "response")
        ELSE LET r == parse_update_todo(h[c].inner, ffi_response_to_core(response))
             IN  IF r.kind = "Ok" THEN ok_todo(h, r.todos[1]) ELSE from_error(h, r),
        "panic in todo_parse_update_todo")

\* A faulty todo_parse_delete_todo that notes the answer's status in the handle.
todo_parse_delete_todo_noting(h, c, response) ==
    catch_unwind_or_panic(
        IF c = NULL THEN null_arg(h, "client")
        ELSE IF response.ptr = "null" THEN null_arg(h, "response")
        ELSE LET r == parse_delete_todo(h[c].inner, ffi_response_to_core(response))
                 noted == [h EXCEPT ![c].inner.base_url = <<"204">>]
             IN  IF r.kind = "Ok" THEN ok_empty(noted) ELSE from_error(noted, r),
        "panic in todo_parse_delete_todo")

todo_parse_delete_todo(h, c, response) ==
    catch_unwind_or_panic(
        IF c = NULL THEN null_arg(h, "client")
        ELSE IF response.ptr = "null" THEN null_arg(h, "response")
        ELSE LET r == parse_delete_todo(h[c].inner, ffi_response_to_core(response))
             IN  IF r.kind = "Ok" THEN ok_empty(h) ELSE from_error(h, r),
        "panic in todo_parse_delete_todo")

\* ------------------------------------------------------------------ release
\* The addresses a release function frees, in the order it frees them.

\* A faulty free_ffi_todo_fields that forgets the title.
free_ffi_todo_fields_id_only(todo) == IF todo.id # NULL THEN <<todo.id>> ELSE << >>

\* free_ffi_todo_fields: id, then title.
free_ffi_todo_fields(todo) ==
    (IF todo.id # NULL THEN <<todo.id>> ELSE << >>)
    \o (IF todo.title # NULL THEN <<todo.title>> ELSE << >>)

RECURSIVE free_items(_, _)
free_items(elems, n) ==
    IF n = 0 THEN << >>
    ELSE free_items(elems, n - 1) \o free_ffi_todo_fields(elems[n])

RECURSIVE free_headers(_, _)
free_headers(hdrs, n) ==
    IF n = 0 THEN << >>
    ELSE free_headers(hdrs, n - 1)
         \o (IF hdrs[n].key # NULL THEN <<hdrs[n].key>> ELSE << >>)
         \o (IF hdrs[n].value # NULL THEN <<hdrs[n].value>> ELSE << >>)

\* A destructor that frees, with the handle, the allocation made last.
todo_client_free_sweeping(h, c) ==
    IF c # NULL
    THEN LET m == CHOOSE a \in DOMAIN h : \A b \in DOMAIN h : b <= a
         IN  IF m # c THEN <<c, m>> ELSE <<c>>
    ELSE << >>

todo_client_free(h, c) == IF c # NULL THEN <<c>> ELSE << >>

\* A release that drops the request structure before what it points to.
todo_free_request_struct_first(h, req) ==
    IF req = NULL THEN << >>
    ELSE LET r == h[req]
         IN  <<req>>
             \o (IF r.path # NULL THEN <<r.path>> ELSE << >>)
             \o (IF r.body # NULL THEN <<r.body>> ELSE << >>)
             \o (IF r.headers # NULL /\ r.headers_len > 0
                 THEN <<r.headers>> \o free_headers(h[r.headers].hdrs, r.headers_len)
                 ELSE << >>)

todo_free_request(h, req) ==
    IF req = NULL THEN << >>
    ELSE LET r == h[req]
         IN  (IF r.path # NULL THEN <<r.path>> ELSE << >>)
             \o (IF r.body # NULL THEN <<r.body>> ELSE << >>)
             \o (IF r.headers # NULL /\ r.headers_len > 0
                 THEN free_headers(h[r.headers].hdrs, r.headers_len) \o <<r.headers>>
                 ELSE << >>)
             \o <<req>>

todo_free_result(h, result) ==
    IF result = NULL THEN << >>
    ELSE LET r == h[result]
         IN  (IF r.error_message # NULL THEN <<r.error_message>> ELSE << >>)
             \o (IF r.data = NULL THEN << >>
                 ELSE IF r.data_tag = "Todo"
                      THEN free_ffi_todo_fields(h[r.data]) \o <<r.data>>
                 ELSE IF r.data_tag = "TodoList"
                      THEN (IF h[r.data].items # NULL /\ h[r.data].len > 0
                            THEN free_items(h[h[r.data].items].elems, h[r.data].len)
                                 \o <<h[r.data].items>>
                            ELSE << >>)
                           \o <<r.data>>
                 ELSE << >>)
             \o <<result>>

\* A faulty todo_free_string without the null check.
todo_free_string_unchecked(h, s) == <<s>>

todo_free_string(h, s) == IF s # NULL THEN <<s>> ELSE << >>

\* The heap after the frees, and whether one of them hit an address that was
\* not live (a double free or a free of a pointer that was never allocated).
RECURSIVE Dealloc(_, _, _)
Dealloc(h, addrs, bad) ==
    IF Len(addrs) = 0 THEN [heap |-> h, bad |-> bad]
    ELSE LET a == Head(addrs)
         IN  IF a \in DOMAIN h
             THEN Dealloc([x \in DOMAIN h \ {a} |-> h[x]], Tail(addrs), bad)
             ELSE Dealloc(h, Tail(addrs), TRUE)

\* ------------------------------------------------------------------- inputs
Item1 == TodoJson(UUID1, <<"First">>, FALSE)
Item2 == TodoJson(UUID2, <<"Second">>, TRUE)
ItemNul == TodoJson(UUID2, <<"a", NUL, "b">>, FALSE)
ItemBadId == TodoJson(NOT_A_UUID, <<"First">>, FALSE)
ItemNulId == TodoJson(<<NUL>>, <<"First">>, FALSE)

StatusArgs ==
    {STATUS_OK, STATUS_CREATED, STATUS_NO_CONTENT, STATUS_NOT_FOUND, STATUS_SERVER_ERROR}

\* Bodies handed to the mapper (Rust strings).
CoreBodyArgs ==
    {EmptyBody, GarbageBody, ObjectBody(Item1), ObjectBody(ItemNul), ObjectBody(ItemBadId),
     ObjectBody(ItemNulId), ArrayBody(<< >>), ArrayBody(<<Item1, Item2>>), ArrayBody(<<Item1, ItemBadId>>)}
CoreResponseArgs ==
    {[status |-> st, headers |-> << >>, body |-> b] : st \in StatusArgs, b \in CoreBodyArgs}
\* Base URLs without a trailing '/', and the same followed by n of them.
MaxSlashes == 2
CoreBaseStems == {<<"http://h">>, <<"http://h", "/", "api">>, EmptyText}
Slashes(n) == [i \in 1..n |-> "/"]
CoreBaseUrlArgs == {b \o Slashes(n) : b \in CoreBaseStems, n \in 0..MaxSlashes}
CoreTitleArgs == {<<"Buy milk">>, EmptyText}
CoreIdArgs == {1, 2}
CoreCreateArgs == {[title |-> t, completed |-> c] : t \in CoreTitleArgs, c \in BOOLEAN}
None == [some |-> FALSE, val |-> EmptyText]
Some(v) == [some |-> TRUE, val |-> v]
NoneBool == [some |-> FALSE, val |-> FALSE]
CoreUpdateArgs ==
    {[title |-> t, completed |-> c] :
        t \in {None} \cup {Some(x) : x \in CoreTitleArgs},
        c \in {NoneBool} \cup {Some(b) : b \in BOOLEAN}}

\* Arguments handed to the boundary functions.
BaseUrlArgs == {CNull, CInvalid, CText(<<"http://h">>), CText(<<"http://h", "/">>)}
IdArgs == {CNull, CInvalid, CText(UUID1), CText(UUID1_SIMPLE), CText(NOT_A_UUID)}
TitleArgs == {CNull, CInvalid, CText(<<"Buy milk">>), CText(EmptyText)}
CompletedArgs == {-1, 0, 1, 2}

\* Responses handed to each parse function: its success status with each
\* shape of body, the other success statuses, 404 and 500, and a null pointer.
ErrorResponseArgs ==
    {NullResponse,
     Response(STATUS_NOT_FOUND, BText(GarbageBody)),
     Response(STATUS_SERVER_ERROR, BText(GarbageBody))}
ListResponseArgs ==
    ErrorResponseArgs
    \cup {Response(STATUS_OK, b) :
            b \in {BNull, BText(GarbageBody), BText(ArrayBody(<< >>)),
                   BText(ArrayBody(<<Item1, Item2>>)), BText(ArrayBody(<<ItemNul, Item1>>))}}
    \cup {Response(STATUS_CREATED, BText(ObjectBody(Item1)))}
ItemResponseArgs(expected, other) ==
    ErrorResponseArgs
    \cup {Response(expected, b) :
            b \in {BInvalid, BText(GarbageBody), BText(ObjectBody(Item1)),
                   BText(ObjectBody(ItemNul)), BText(ObjectBody(ItemBadId)),
                   BText(ObjectBody(ItemNulId))}}
    \cup {Response(other, BText(ObjectBody(Item1)))}
DeleteResponseArgs ==
    ErrorResponseArgs
    \cup {Response(STATUS_NO_CONTENT, b) : b \in {BText(EmptyBody), BText(GarbageBody)}}
    \cup {Response(STATUS_OK, BText(ObjectBody(Item1)))}

\* The handle arguments a caller can pass: null, or the handle it holds.
ClientArgs == {NULL, client}

\* Argument tuples of the build and parse calls: a null handle with otherwise
\* valid arguments, and the handle the caller holds with each argument varied.
GetArgs == {<<NULL, CText(UUID1)>>} \cup {<<client, id>> : id \in IdArgs}
CreateArgs ==
    {<<NULL, CText(<<"Buy milk">>), FALSE>>, <<client, CText(<<"Buy milk">>), TRUE>>}
    \cup {<<client, title, FALSE>> : title \in TitleArgs}
UpdateArgs ==
    {<<NULL, CText(UUID1), CText(<<"Buy milk">>), 1>>}
    \cup {<<client, id, CText(<<"Buy milk">>), 1>> : id \in IdArgs}
    \cup {<<client, CText(UUID1), title, -1>> : title \in TitleArgs}
    \cup {<<client, CText(UUID1), CNull, completed>> : completed \in CompletedArgs}
ParseArgs(responses) ==
    {<<NULL, Response(STATUS_OK, BText(ObjectBody(Item1)))>>}
    \cup {<<client, response>> : response \in responses}

\* -------------------------------------------------------------- mock server
\* What axum answers before a handler runs: a path that holds no Uuid, a method
\* the route does not name, a body that does not deserialize.
STATUS_BAD_REQUEST == 400
STATUS_METHOD_NOT_ALLOWED == 405
STATUS_UNPROCESSABLE_ENTITY == 422

\* A member of a JSON object as the server reads it: not there, null, or a value.
JAbsent == [k |-> "absent"]
JNull == [k |-> "null"]
JVal(v) == [k |-> "value", v |-> v]
NoDoc == [title |-> JAbsent, completed |-> JAbsent]

\* serde_json reading the text that to_string_CreateTodo / to_string_UpdateTodo
\* wrote: the members named by the keys, with their values.
from_str_Value(body) ==
    [title |-> IF \E i \in 1..Len(body.keys) : body.keys[i] = "title"
               THEN JVal(body.title) ELSE JAbsent,
     completed |-> IF \E i \in 1..Len(body.keys) : body.keys[i] = "completed"
                   THEN JVal(body.completed) ELSE JAbsent]

\* A faulty reader of CreateTodo that takes the default for completed always.
de_CreateTodo_default_completed(doc) ==
    IF doc.title.k # "value" \/ doc.completed.k = "null"
    THEN [ok |-> FALSE, title |-> EmptyText, completed |-> FALSE]
    ELSE [ok |-> TRUE, title |-> doc.title.v, completed |-> FALSE]

\* Deserialize for the server's CreateTodo: title is required,
\* completed is #[serde(default)].
de_CreateTodo(doc) ==
    IF doc.title.k # "value" \/ doc.completed.k = "null"
    THEN [ok |-> FALSE, title |-> EmptyText, completed |-> FALSE]
    ELSE [ok |-> TRUE, title |-> doc.title.v,
          completed |-> IF doc.completed.k = "value" THEN doc.completed.v ELSE FALSE]

\* Deserialize for the server's UpdateTodo: an Option member is None when the
\* member is missing and when it is null.
de_UpdateTodo(doc) ==
    [title |-> IF doc.title.k = "value" THEN Some(doc.title.v) ELSE None,
     completed |-> IF doc.completed.k = "value" THEN Some(doc.completed.v) ELSE NoneBool]

\* Db: the HashMap<Uuid, Todo> behind the lock, empty in app().
EmptyDb == [k \in {} |-> [id |-> 0, title |-> EmptyText, completed |-> FALSE]]
insert(store, todo) ==
    [k \in DOMAIN store \cup {todo.id} |-> IF k = todo.id THEN todo ELSE store[k]]
remove(store, id) == [k \in DOMAIN store \ {id} |-> store[k]]

\* Json(todo): the Todo as a JSON object, the identifier in hyphenated form.
Json(todo) == TodoJson(Uuid_to_string(todo.id), todo.title, todo.completed)

\* What a handler leaves: the store, the status and the body of the response.
Reply(store, status, body) == [db |-> store, status |-> status, body |-> body]

\* The orders in which HashMap::values() can yield the stored items.
Orders(store) ==
    {o \in [1..Cardinality(DOMAIN store) -> DOMAIN store] :
        \A i, j \in DOMAIN o : i # j => o[i] # o[j]}

list_todos(store, order) ==
    Reply(store, STATUS_OK, ArrayBody([i \in DOMAIN order |-> Json(store[order[i]])]))

create_todo(store, input, new_v4) ==
    LET todo == [id |-> new_v4, title |-> input.title, completed |-> input.completed]
    IN  Reply(insert(store, todo), STATUS_CREATED, ObjectBody(Json(todo)))

get_todo(store, id) ==
    IF id \in DOMAIN store
    THEN Reply(store, STATUS_OK, ObjectBody(Json(store[id])))
    ELSE Reply(store, STATUS_NOT_FOUND, EmptyBody)

\* A faulty update_todo that writes both fields whether they were sent or not.
update_todo_overwriting(store, id, input) ==
    IF id \notin DOMAIN store THEN Reply(store, STATUS_NOT_FOUND, EmptyBody)
    ELSE LET todo == [store[id] EXCEPT !.title = input.title.val,
                                       !.completed = input.completed.val]
         IN  Reply([store EXCEPT ![id] = todo], STATUS_OK, ObjectBody(Json(todo)))

update_todo(store, id, input) ==
    IF id \notin DOMAIN store THEN Reply(store, STATUS_NOT_FOUND, EmptyBody)
    ELSE LET todo == [store[id] EXCEPT
                         !.title = IF input.title.some THEN input.title.val ELSE @,
                         !.completed = IF input.completed.some
                                       THEN input.completed.val ELSE @]
         IN  Reply([store EXCEPT ![id] = todo], STATUS_OK, ObjectBody(Json(todo)))

\* A faulty delete_todo that answers 204 and keeps the item.
delete_todo_keeping(store, id) ==
    IF id \in DOMAIN store
    THEN Reply(store, STATUS_NO_CONTENT, EmptyBody)
    ELSE Reply(store, STATUS_NOT_FOUND, EmptyBody)

delete_todo(store, id) ==
    IF id \in DOMAIN store
    THEN Reply(remove(store, id), STATUS_NO_CONTENT, EmptyBody)
    ELSE Reply(store, STATUS_NOT_FOUND, EmptyBody)

\* The address the server listens on, and the route a request path selects:
\* "/todos", "/todos/{id}" with the identifier parsed by Path<Uuid>, or none.
HOST == <<"http://h">>
Route(path) ==
    IF path = HOST \o <<"/todos">> THEN [kind |-> "todos", id |-> Uuid_parse_str(EmptyText)]
    ELSE IF Len(path) = 3 /\ SubSeq(path, 1, 2) = HOST \o <<"/todos/">>
         THEN [kind |-> "todo", id |-> Uuid_parse_str(<<path[3]>>)]
    ELSE [kind |-> "none", id |-> Uuid_parse_str(EmptyText)]

\* app(): the router and the extractors in front of the handlers.  new_v4 is
\* the identifier Uuid::new_v4() draws, order the iteration order of the map.
app(store, req, new_v4, order) ==
    LET route == Route(req.path) IN
    IF route.kind = "todos" THEN
        IF req.method = "Get" THEN list_todos(store, order)
        ELSE IF req.method = "Post" THEN
            LET input == de_CreateTodo(req.doc)
            IN  IF input.ok THEN create_todo(store, input, new_v4)
                ELSE Reply(store, STATUS_UNPROCESSABLE_ENTITY, GarbageBody)
        ELSE Reply(store, STATUS_METHOD_NOT_ALLOWED, EmptyBody)
    ELSE IF route.kind = "todo" THEN
        IF req.method = "Post" THEN Reply(store, STATUS_METHOD_NOT_ALLOWED, EmptyBody)
        ELSE IF ~route.id.ok THEN Reply(store, STATUS_BAD_REQUEST, GarbageBody)
        ELSE IF req.method = "Get" THEN get_todo(store, route.id.uuid)
        ELSE IF req.method = "Put"
             THEN update_todo(store, route.id.uuid, de_UpdateTodo(req.doc))
        ELSE delete_todo(store, route.id.uuid)
    ELSE Reply(store, STATUS_NOT_FOUND, EmptyBody)

\* execute() of the integration test: the mapper's request goes over HTTP and
\* the answer comes back as an HttpResponse with no headers.
execute(store, req, new_v4, order) ==
    LET r == app(store, [method |-> req.method, path |-> req.path,
                         doc |-> from_str_Value(req.body)], new_v4, order)
    IN  [db |-> r.db,
         response |-> [status |-> r.status, headers |-> << >>, body |-> r.body]]

\* Identifiers Uuid::new_v4() can draw here (a repeat is taken not to happen),
\* titles and documents that clients of the server send.
ServerIds == {1, 2}
ServerTitles == {<<"Walk dog">>, <<"Walk cat">>}
CreateDocs ==
    {[title |-> t, completed |-> c] :
        t \in {JAbsent} \cup {JVal(x) : x \in ServerTitles}, c \in {JAbsent, JVal(TRUE)}}
UpdateDocs ==
    {[title |-> t, completed |-> c] :
        t \in {JAbsent, JNull, JVal(<<"Walk cat">>)},
        c \in {JAbsent, JNull, JVal(TRUE), JVal(FALSE)}}

\* The lifecycle test before its first step.
NoScript == [pc |-> 0, sent |-> << >>, seen |-> << >>]

\* -------------------------------------------------------------------- state
NoRequest == [method |-> "None", path |-> EmptyText, headers |-> << >>, body |-> NoBody]

\* The record of a call: its arguments, the mapper's request or result, the
\* pointer returned and the addresses freed.
Call(op) ==
    [op |-> op, client |-> NULL, base_url |-> CNull, id |-> CNull, title |-> CNull,
     completed |-> 0, flag |-> FALSE, response |-> NullResponse, request |-> NoRequest,
     core |-> NoResult, ptr |-> NULL, ret |-> NULL, fault |-> "none", freed |-> << >>,
     doc |-> NoDoc, cap |-> 0]

\* Threads of a C caller that share one handle; a thread that is in no call.
MaxThreads == 2
Threads == 1..MaxThreads
Idle == [pc |-> "idle", call |-> Call("none"), reads |-> {}, writes |-> {}]

\* Requests the server handles at one time; the lock free; no request in hand.
MaxRequests == 2
Requests == 1..MaxRequests
Unlocked == [writer |-> 0, readers |-> {}]
NoTodo == [id |-> 0, title |-> EmptyText, completed |-> FALSE]
NoInput == [title |-> None, completed |-> NoneBool]
NotServing ==
    [pc |-> "idle", op |-> "none", id |-> 0, input |-> NoInput, todo |-> NoTodo,
     snap |-> << >>]

NoMapper == [live |-> FALSE, base_url |-> EmptyText, stem |-> EmptyText, slashes |-> 0]

Init ==
    /\ heap = << >>
    /\ client = NULL
    /\ requests = {}
    /\ results = {}
    /\ badFree = FALSE
    /\ mapper = NoMapper
    /\ db = EmptyDb
    /\ script = NoScript
    /\ threads = [t \in Threads |-> Idle]
    /\ lock = Unlocked
    /\ serving = [r \in Requests |-> NotServing]
    /\ last = Call("none")

\* The cells a request owns: itself, path, body, header array, header strings.
OwnedByRequest(h, p) ==
    ({p, h[p].path, h[p].body, h[p].headers}
     \cup (IF h[p].headers = NULL THEN {}
           ELSE UNION {{h[h[p].headers].hdrs[i].key, h[h[p].headers].hdrs[i].value} :
                        i \in 1..Len(h[h[p].headers].hdrs)}))
    \ {NULL}

\* The cells an envelope owns: itself, message, payload and the payload's strings.
OwnedByResult(h, p) ==
    ({p, h[p].error_message, h[p].data}
     \cup (IF h[p].data = NULL THEN {}
           ELSE IF h[h[p].data].kind = "FfiTodo"
                THEN {h[h[p].data].id, h[h[p].data].title}
           ELSE IF h[h[p].data].items = NULL THEN {}
           ELSE {h[h[p].data].items}
                \cup UNION {{h[h[h[p].data].items].elems[i].id,
                             h[h[h[p].data].items].elems[i].title} :
                            i \in 1..Len(h[h[h[p].data].items].elems)}))
    \ {NULL}

\* Live cells that nothing the caller holds owns.
Leaked(h, c, reqs, ress) ==
    DOMAIN h \ (({c} \ {NULL})
                \cup UNION {OwnedByRequest(h, p) : p \in reqs}
                \cup UNION {OwnedByResult(h, p) : p \in ress})

\* The caller has room for one more value.
Room == Cardinality(requests) + Cardinality(results) < MaxOutstanding

\* The mapper's result for a parse call that reaches the mapper.
Core(c, response, r) == IF c = NULL \/ response.ptr = "null" THEN NoResult ELSE r

\* What became of a fault in a call: none was raised, one was caught at the
\* boundary, or one left the function.
Fault(r) == IF r.caught THEN "caught" ELSE IF r.panicked THEN "escaped" ELSE "none"

\* The array a returned request or envelope points to: the header array of a
\* request, the item array of a list envelope; NULL when it has none.
ArrayOf(h, p) ==
    IF p = NULL THEN NULL
    ELSE IF h[p].kind = "FfiHttpRequest" THEN h[p].headers
    ELSE IF h[p].data_tag = "TodoList" /\ h[p].data # NULL THEN h[h[p].data].items
    ELSE NULL

\* The element count the flat structure stores beside the array pointer.
StoredLen(h, p) ==
    IF h[p].kind = "FfiHttpRequest" THEN h[p].headers_len ELSE h[h[p].data].len

\* Number of elements the array holds.
ArrayLen(h, a) == IF h[a].kind = "Vec<FfiHeader>" THEN Len(h[a].hdrs) ELSE Len(h[a].elems)

\* Capacity of the vector that into_iter().map(..).collect() returns for a
\* source vector of len elements: len when collect allocates a buffer of its
\* own, and the source's capacity times the ratio of the element sizes when it
\* reuses the source's buffer.  The header vector comes from vec![(k, v)]
\* (capacity = length, a pair of Strings is three times an FfiHeader); the
\* item vector was pushed to by the deserializer (capacity 4 up to four
\* elements, a Todo is twice an FfiTodo).
collect(h, a) ==
    IF h[a].kind = "Vec<FfiHeader>"
    THEN {ArrayLen(h, a), ArrayLen(h, a) * 3}
    ELSE {ArrayLen(h, a), (IF ArrayLen(h, a) <= 4 THEN 4 ELSE 8) * 2}

\* The capacities the array of a returned value can have been allocated with.
Capacities(h, p) == IF ArrayOf(h, p) = NULL THEN {0} ELSE collect(h, ArrayOf(h, p))

\* A build call returned: the caller keeps a non-null request.
Built(rr, call) ==
    LET r == [rr EXCEPT !.heap = AfterCall(rr.heap)] IN
    /\ Room
    /\ Cardinality(Leaked(r.heap, client, requests \cup ({r.ret} \ {NULL}), results))
           <= MaxLeaked
    /\ heap' = r.heap
    /\ requests' = requests \cup ({r.ret} \ {NULL})
    /\ \E cap \in Capacities(r.heap, r.ret) :
           last' = [call EXCEPT !.ret = r.ret, !.fault = Fault(r), !.cap = cap]
    /\ UNCHANGED <<client, results, badFree, mapper, db, script, threads, lock, serving>>

\* A parse call returned: the caller keeps a non-null envelope.
Parsed(rr, call) ==
    LET r == [rr EXCEPT !.heap = AfterCall(rr.heap)] IN
    /\ Room
    /\ Cardinality(Leaked(r.heap, client, requests, results \cup ({r.ret} \ {NULL})))
           <= MaxLeaked
    /\ heap' = r.heap
    /\ results' = results \cup ({r.ret} \ {NULL})
    /\ \E cap \in Capacities(r.heap, r.ret) :
           last' = [call EXCEPT !.ret = r.ret, !.fault = Fault(r), !.cap = cap]
    /\ UNCHANGED <<client, requests, badFree, mapper, db, script, threads, lock, serving>>

\* A release call returned.
Released(addrs, call) ==
    LET d == Dealloc(heap, addrs, FALSE)
    IN  /\ heap' = d.heap
        /\ badFree' = (badFree \/ d.bad)
        /\ last' = [call EXCEPT !.freed = addrs]
        /\ UNCHANGED <<mapper, db, script, threads, lock, serving>>

\* ------------------------------------------------- actions: the C boundary
TodoClientNew ==
    /\ client = NULL
    /\ \E base_url \in BaseUrlArgs :
        LET r == todo_client_new(InCall(heap), base_url)
        IN  /\ heap' = AfterCall(r.heap)
            /\ client' = r.ret
            /\ last' = [Call("todo_client_new") EXCEPT !.base_url = base_url, !.ret = r.ret]
            /\ UNCHANGED <<requests, results, badFree, mapper, db, script, threads, lock, serving>>

TodoClientFree ==
    \E c \in ClientArgs :
        /\ Released(todo_client_free(heap, c),
                    [Call("todo_client_free") EXCEPT !.ptr = c])
        /\ client' = IF c = NULL THEN client ELSE NULL
        /\ UNCHANGED <<requests, results>>

TodoBuildListTodos ==
    \E c \in ClientArgs :
        Built(todo_build_list_todos(InCall(heap), c),
              [Call("todo_build_list_todos") EXCEPT !.client = c])

TodoBuildGetTodo ==
    \E a \in GetArgs :
        Built(todo_build_get_todo(InCall(heap), a[1], a[2]),
              [Call("todo_build_get_todo") EXCEPT !.client = a[1], !.id = a[2]])

TodoBuildCreateTodo ==
    \E a \in CreateArgs :
        Built(todo_build_create_todo(InCall(heap), a[1], a[2], a[3]),
              [Call("todo_build_create_todo") EXCEPT
                  !.client = a[1], !.title = a[2], !.flag = a[3]])

TodoBuildUpdateTodo ==
    \E a \in UpdateArgs :
        Built(todo_build_update_todo(InCall(heap), a[1], a[2], a[3], a[4]),
              [Call("todo_build_update_todo") EXCEPT
                  !.client = a[1], !.id = a[2], !.title = a[3], !.completed = a[4]])

TodoBuildDeleteTodo ==
    \E a \in GetArgs :
        Built(todo_build_delete_todo(InCall(heap), a[1], a[2]),
              [Call("todo_build_delete_todo") EXCEPT !.client = a[1], !.id = a[2]])

TodoParseListTodos ==
    \E a \in ParseArgs(ListResponseArgs) :
        Parsed(todo_parse_list_todos(InCall(heap), a[1], a[2]),
               [Call("todo_parse_list_todos") EXCEPT
                   !.client = a[1], !.response = a[2],
                   !.core = Core(a[1], a[2],
                                 parse_list_todos(heap[a[1]].inner,
                                                  ffi_response_to_core(a[2])))])

TodoParseGetTodo ==
    \E a \in ParseArgs(ItemResponseArgs(STATUS_OK, STATUS_CREATED)) :
        Parsed(todo_parse_get_todo(InCall(heap), a[1], a[2]),
               [Call("todo_parse_get_todo") EXCEPT
                   !.client = a[1], !.response = a[2],
                   !.core = Core(a[1], a[2],
                                 parse_get_todo(heap[a[1]].inner,
                                                ffi_response_to_core(a[2])))])

TodoParseCreateTodo ==
    \E a \in ParseArgs(ItemResponseArgs(STATUS_CREATED, STATUS_OK)) :
        Parsed(todo_parse_create_todo(InCall(heap), a[1], a[2]),
               [Call("todo_parse_create_todo") EXCEPT
                   !.client = a[1], !.response = a[2],
                   !.core = Core(a[1], a[2],
                                 parse_create_todo(heap[a[1]].inner,
                                                   ffi_response_to_core(a[2])))])

TodoParseUpdateTodo ==
    \E a \in ParseArgs(ItemResponseArgs(STATUS_OK, STATUS_CREATED)) :
        Parsed(todo_parse_update_todo(InCall(heap), a[1], a[2]),
               [Call("todo_parse_update_todo") EXCEPT
                   !.client = a[1], !.response = a[2],
                   !.core = Core(a[1], a[2],
                                 parse_update_todo(heap[a[1]].inner,
                                                   ffi_response_to_core(a[2])))])

TodoParseDeleteTodo ==
    \E a \in ParseArgs(DeleteResponseArgs) :
        Parsed(todo_parse_delete_todo(InCall(heap), a[1], a[2]),
               [Call("todo_parse_delete_todo") EXCEPT
                   !.client = a[1], !.response = a[2],
                   !.core = Core(a[1], a[2],
                                 parse_delete_todo(heap[a[1]].inner,
                                                   ffi_response_to_core(a[2])))])

\* The caller releases a request it holds, once, or passes null.
TodoFreeRequest ==
    \E req \in requests \cup {NULL} :
        /\ Released(todo_free_request(heap, req),
                    [Call("todo_free_request") EXCEPT !.ptr = req])
        /\ requests' = requests \ {req}
        /\ UNCHANGED <<client, results>>

\* The caller releases an envelope it holds, once, or passes null.
TodoFreeResult ==
    \E result \in results \cup {NULL} :
        /\ Released(todo_free_result(heap, result),
                    [Call("todo_free_result") EXCEPT !.ptr = result])
        /\ results' = results \ {result}
        /\ UNCHANGED <<client, requests>>

\* No boundary function returns a bare string, so a caller that releases only
\* what it was handed has nothing but null to pass here.
TodoFreeString ==
    \E s \in {NULL} :
        /\ Released(todo_free_string(heap, s),
                    [Call("todo_free_string") EXCEPT !.ptr = s])
        /\ UNCHANGED <<client, requests, results>>

\* --------------------------------------------- actions: the mapper (core crate)
\* A Rust caller of the core crate: it constructs a TodoClient and calls its
\* methods; nothing is allocated across a boundary.
CoreNew ==
    \E stem \in CoreBaseStems, n \in 0..MaxSlashes :
        /\ mapper' = [live |-> TRUE,
                      base_url |-> TodoClient_new(stem \o Slashes(n)).base_url,
                      stem |-> stem, slashes |-> n]
        /\ last' = [Call("TodoClient::new") EXCEPT !.base_url = CText(stem \o Slashes(n))]
        /\ UNCHANGED <<heap, client, requests, results, badFree, db, script, threads, lock, serving>>

CoreBuildListTodos ==
    /\ mapper.live
    /\ last' = [Call("TodoClient::build_list_todos") EXCEPT
        !.request = build_list_todos(mapper)]
    /\ UNCHANGED <<heap, client, requests, results, badFree, mapper, db, script, threads, lock, serving>>

CoreBuildGetTodo ==
    \E id \in CoreIdArgs :
        /\ mapper.live
        /\ last' = [Call("TodoClient::build_get_todo") EXCEPT
            !.id = CText(Uuid_to_string(id)),
            !.request = build_get_todo(mapper, id)]
        /\ UNCHANGED <<heap, client, requests, results, badFree, mapper, db, script, threads, lock, serving>>

CoreBuildCreateTodo ==
    \E input \in CoreCreateArgs :
        /\ mapper.live
        /\ last' = [Call("TodoClient::build_create_todo") EXCEPT
            !.title = CText(input.title), !.flag = input.completed,
            !.request = build_create_todo(mapper, input)]
        /\ UNCHANGED <<heap, client, requests, results, badFree, mapper, db, script, threads, lock, serving>>

CoreBuildUpdateTodo ==
    \E id \in CoreIdArgs, input \in CoreUpdateArgs :
        /\ mapper.live
        /\ last' = [Call("TodoClient::build_update_todo") EXCEPT
            !.id = CText(Uuid_to_string(id)),
            !.title = IF input.title.some THEN CText(input.title.val) ELSE CNull,
            !.completed = IF ~input.completed.some THEN -1
                          ELSE IF input.completed.val THEN 1 ELSE 0,
            !.request = build_update_todo(mapper, id, input)]
        /\ UNCHANGED <<heap, client, requests, results, badFree, mapper, db, script, threads, lock, serving>>

CoreBuildDeleteTodo ==
    \E id \in CoreIdArgs :
        /\ mapper.live
        /\ last' = [Call("TodoClient::build_delete_todo") EXCEPT
            !.id = CText(Uuid_to_string(id)),
            !.request = build_delete_todo(mapper, id)]
        /\ UNCHANGED <<heap, client, requests, results, badFree, mapper, db, script, threads, lock, serving>>

CoreParseListTodos ==
    \E response \in CoreResponseArgs :
        /\ mapper.live
        /\ last' = [Call("TodoClient::parse_list_todos") EXCEPT
            !.response = response,
            !.core = parse_list_todos(mapper, response)]
        /\ UNCHANGED <<heap, client, requests, results, badFree, mapper, db, script, threads, lock, serving>>

CoreParseGetTodo ==
    \E response \in CoreResponseArgs :
        /\ mapper.live
        /\ last' = [Call("TodoClient::parse_get_todo") EXCEPT
            !.response = response,
            !.core = parse_get_todo(mapper, response)]
        /\ UNCHANGED <<heap, client, requests, results, badFree, mapper, db, script, threads, lock, serving>>

CoreParseCreateTodo ==
    \E response \in CoreResponseArgs :
        /\ mapper.live
        /\ last' = [Call("TodoClient::parse_create_todo") EXCEPT
            !.response = response,
            !.core = parse_create_todo(mapper, response)]
        /\ UNCHANGED <<heap, client, requests, results, badFree, mapper, db, script, threads, lock, serving>>

CoreParseUpdateTodo ==
    \E response \in CoreResponseArgs :
        /\ mapper.live
        /\ last' = [Call("TodoClient::parse_update_todo") EXCEPT
            !.response = response,
            !.core = parse_update_todo(mapper, response)]
        /\ UNCHANGED <<heap, client, requests, results, badFree, mapper, db, script, threads, lock, serving>>

CoreParseDeleteTodo ==
    \E response \in CoreResponseArgs :
        /\ mapper.live
        /\ last' = [Call("TodoClient::parse_delete_todo") EXCEPT
            !.response = response,
            !.core = parse_delete_todo(mapper, response)]
        /\ UNCHANGED <<heap, client, requests, results, badFree, mapper, db, script, threads, lock, serving>>

\* ------------------------------------------- actions: clients of the server
\* A client sends one request to the server, as the tests of the server do;
\* the handler runs under the lock of the store, start to end.
ServerListTodos ==
    \E order \in Orders(db) :
        LET r == app(db, [method |-> "Get", path |-> HOST \o <<"/todos">>, doc |-> NoDoc],
                     0, order)
        IN  /\ db' = r.db
            /\ last' = [Call("list_todos") EXCEPT
                   !.response = [status |-> r.status, headers |-> << >>, body |-> r.body]]
            /\ UNCHANGED <<heap, client, requests, results, badFree, mapper, script, threads, lock, serving>>

ServerCreateTodo ==
    \E doc \in CreateDocs, new_v4 \in ServerIds \ DOMAIN db :
        LET r == app(db, [method |-> "Post", path |-> HOST \o <<"/todos">>, doc |-> doc],
                     new_v4, << >>)
        IN  /\ db' = r.db
            /\ last' = [Call("create_todo") EXCEPT
                   !.doc = doc,
                   !.response = [status |-> r.status, headers |-> << >>, body |-> r.body]]
            /\ UNCHANGED <<heap, client, requests, results, badFree, mapper, script, threads, lock, serving>>

ServerGetTodo ==
    \E id \in {UUID1, UUID2, <<"not-a-uuid">>} :
        LET r == app(db, [method |-> "Get", path |-> HOST \o <<"/todos/">> \o id,
                          doc |-> NoDoc], 0, << >>)
        IN  /\ db' = r.db
            /\ last' = [Call("get_todo") EXCEPT
                   !.id = CText(id),
                   !.response = [status |-> r.status, headers |-> << >>, body |-> r.body]]
            /\ UNCHANGED <<heap, client, requests, results, badFree, mapper, script, threads, lock, serving>>

ServerUpdateTodo ==
    \E id \in {UUID1, UUID2}, doc \in UpdateDocs :
        LET r == app(db, [method |-> "Put", path |-> HOST \o <<"/todos/">> \o id,
                          doc |-> doc], 0, << >>)
        IN  /\ db' = r.db
            /\ last' = [Call("update_todo") EXCEPT
                   !.id = CText(id), !.doc = doc,
                   !.response = [status |-> r.status, headers |-> << >>, body |-> r.body]]
            /\ UNCHANGED <<heap, client, requests, results, badFree, mapper, script, threads, lock, serving>>

ServerDeleteTodo ==
    \E id \in {UUID1, UUID2} :
        LET r == app(db, [method |-> "Delete", path |-> HOST \o <<"/todos/">> \o id,
                          doc |-> NoDoc], 0, << >>)
        IN  /\ db' = r.db
            /\ last' = [Call("delete_todo") EXCEPT
                   !.id = CText(id),
                   !.response = [status |-> r.status, headers |-> << >>, body |-> r.body]]
            /\ UNCHANGED <<heap, client, requests, results, badFree, mapper, script, threads, lock, serving>>

\* ------------------------------------------------ actions: the lifecycle test
\* crud_lifecycle: one client drives the mapper against a server that starts
\* empty: each step builds a request, executes it and parses the response.
\* The test unwraps what it expects, so it goes on only after a successful create.
LifecycleClient == TodoClient_new(HOST)
Created == script.seen[1].todos[1]

LifecycleCreate ==
    /\ script.pc = 0
    /\ \E input \in CoreCreateArgs, new_v4 \in ServerIds \ DOMAIN db :
        LET req == build_create_todo(LifecycleClient, input)
            r == execute(db, req, new_v4, << >>)
        IN  /\ db' = r.db
            /\ script' = [pc |-> 1, sent |-> Append(script.sent, req),
                          seen |-> Append(script.seen,
                                          parse_create_todo(LifecycleClient, r.response))]
            /\ UNCHANGED <<heap, client, requests, results, badFree, mapper, last, threads, lock, serving>>

LifecycleGet ==
    /\ script.pc \in {1, 5}
    /\ script.seen[1].kind = "Ok"
    /\ LET req == build_get_todo(LifecycleClient, Created.id)
           r == execute(db, req, 0, << >>)
       IN  /\ db' = r.db
           /\ script' = [pc |-> script.pc + 1, sent |-> Append(script.sent, req),
                         seen |-> Append(script.seen,
                                         parse_get_todo(LifecycleClient, r.response))]
           /\ UNCHANGED <<heap, client, requests, results, badFree, mapper, last, threads, lock, serving>>

LifecycleUpdateTitle ==
    /\ script.pc = 2
    /\ \E title \in ServerTitles :
        LET req == build_update_todo(LifecycleClient, Created.id,
                                     [title |-> Some(title), completed |-> NoneBool])
            r == execute(db, req, 0, << >>)
        IN  /\ db' = r.db
            /\ script' = [pc |-> 3, sent |-> Append(script.sent, req),
                          seen |-> Append(script.seen,
                                          parse_update_todo(LifecycleClient, r.response))]
            /\ UNCHANGED <<heap, client, requests, results, badFree, mapper, last, threads, lock, serving>>

LifecycleUpdateCompleted ==
    /\ script.pc = 3
    /\ \E done \in BOOLEAN :
        LET req == build_update_todo(LifecycleClient, Created.id,
                                     [title |-> None, completed |-> Some(done)])
            r == execute(db, req, 0, << >>)
        IN  /\ db' = r.db
            /\ script' = [pc |-> 4, sent |-> Append(script.sent, req),
                          seen |-> Append(script.seen,
                                          parse_update_todo(LifecycleClient, r.response))]
            /\ UNCHANGED <<heap, client, requests, results, badFree, mapper, last, threads, lock, serving>>

LifecycleDelete ==
    /\ script.pc \in {4, 6}
    /\ LET req == build_delete_todo(LifecycleClient, Created.id)
           r == execute(db, req, 0, << >>)
       IN  /\ db' = r.db
           /\ script' = [pc |-> script.pc + 1, sent |-> Append(script.sent, req),
                         seen |-> Append(script.seen,
                                         parse_delete_todo(LifecycleClient, r.response))]
           /\ UNCHANGED <<heap, client, requests, results, badFree, mapper, last, threads, lock, serving>>

LifecycleList ==
    /\ script.pc = 7
    /\ \E order \in Orders(db) :
        LET req == build_list_todos(LifecycleClient)
            r == execute(db, req, 0, order)
        IN  /\ db' = r.db
            /\ script' = [pc |-> 8, sent |-> Append(script.sent, req),
                          seen |-> Append(script.seen,
                                          parse_list_todos(LifecycleClient, r.response))]
            /\ UNCHANGED <<heap, client, requests, results, badFree, mapper, last, threads, lock, serving>>

\* The names of the build and of the parse functions of the boundary.
FfiParseOps ==
    {"todo_parse_list_todos", "todo_parse_get_todo", "todo_parse_create_todo",
     "todo_parse_update_todo", "todo_parse_delete_todo"}
FfiBuildOps ==
    {"todo_build_list_todos", "todo_build_get_todo", "todo_build_create_todo",
     "todo_build_update_todo", "todo_build_delete_todo"}

\* The boundary function a call record names, applied to the record's arguments.
FfiBuild(h, call) ==
    CASE call.op = "todo_build_list_todos" -> todo_build_list_todos(h, call.client)
      [] call.op = "todo_build_get_todo" -> todo_build_get_todo(h, call.client, call.id)
      [] call.op = "todo_build_create_todo" ->
             todo_build_create_todo(h, call.client, call.title, call.flag)
      [] call.op = "todo_build_update_todo" ->
             todo_build_update_todo(h, call.client, call.id, call.title, call.completed)
      [] call.op = "todo_build_delete_todo" -> todo_build_delete_todo(h, call.client, call.id)
FfiParse(h, call) ==
    CASE call.op = "todo_parse_list_todos" ->
             todo_parse_list_todos(h, call.client, call.response)
      [] call.op = "todo_parse_get_todo" -> todo_parse_get_todo(h, call.client, call.response)
      [] call.op = "todo_parse_create_todo" ->
             todo_parse_create_todo(h, call.client, call.response)
      [] call.op = "todo_parse_update_todo" ->
             todo_parse_update_todo(h, call.client, call.response)
      [] call.op = "todo_parse_delete_todo" ->
             todo_parse_delete_todo(h, call.client, call.response)

\* -------------------------------------------- actions: threads of a C caller
\* Calls that the threads make on the handle they share.
ThreadBuildCalls ==
    {Call("todo_build_list_todos"),
     [Call("todo_build_update_todo") EXCEPT !.id = CText(UUID1), !.completed = 1]}
ThreadParseCalls ==
    {[Call("todo_parse_get_todo") EXCEPT
         !.response = Response(STATUS_OK, BText(ObjectBody(Item1)))],
     [Call("todo_parse_get_todo") EXCEPT
         !.response = Response(STATUS_OK, BText(ObjectBody(ItemNulId)))],
     [Call("todo_parse_list_todos") EXCEPT
         !.response = Response(STATUS_OK, BText(ArrayBody(<<Item1, Item2>>)))],
     [Call("todo_parse_delete_todo") EXCEPT
         !.response = Response(STATUS_NO_CONTENT, BText(EmptyBody))]}

\* The addresses a call wrote: those it allocated and those it changed.
Written(before, after) ==
    {a \in DOMAIN after : a \notin DOMAIN before \/ after[a] # before[a]}
    \cup (DOMAIN before \ DOMAIN after)

\* A thread enters a build function with the shared handle.  The function
\* reads the handle and allocates what it returns; the allocator gives it
\* memory that no live allocation uses.
ThreadBuild ==
    \E t \in Threads, c \in ThreadBuildCalls :
        /\ client # NULL
        /\ threads[t].pc = "idle"
        /\ LET call == [c EXCEPT !.client = client]
               r == FfiBuild(InCall(heap), call)
           IN  /\ heap' = AfterCall(r.heap)
               /\ threads' = [threads EXCEPT ![t] =
                      [pc |-> "running",
                       call |-> [call EXCEPT !.ret = r.ret, !.fault = Fault(r)],
                       reads |-> {client},
                       writes |-> Written(heap, AfterCall(r.heap))]]
        /\ UNCHANGED <<client, requests, results, badFree, mapper, db, script, lock,
                       serving, last>>

\* A thread enters a parse function with the shared handle.
ThreadParse ==
    \E t \in Threads, c \in ThreadParseCalls :
        /\ client # NULL
        /\ threads[t].pc = "idle"
        /\ LET call == [c EXCEPT !.client = client]
               r == FfiParse(InCall(heap), call)
           IN  /\ heap' = AfterCall(r.heap)
               /\ threads' = [threads EXCEPT ![t] =
                      [pc |-> "running",
                       call |-> [call EXCEPT !.ret = r.ret, !.fault = Fault(r)],
                       reads |-> {client},
                       writes |-> Written(heap, AfterCall(r.heap))]]
        /\ UNCHANGED <<client, requests, results, badFree, mapper, db, script, lock,
                       serving, last>>

\* The call of a thread returns: the thread holds what it was handed.
ThreadReturn ==
    \E t \in Threads :
        /\ threads[t].pc = "running"
        /\ threads' = [threads EXCEPT ![t].pc = "returned"]
        /\ requests' = requests \cup (IF threads[t].call.op \in FfiBuildOps
                                      THEN {threads[t].call.ret} \ {NULL} ELSE {})
        /\ results' = results \cup (IF threads[t].call.op \in FfiParseOps
                                    THEN {threads[t].call.ret} \ {NULL} ELSE {})
        /\ UNCHANGED <<heap, client, badFree, mapper, db, script, lock, serving, last>>

\* A thread releases what its call returned, with the paired release function.
ThreadRelease ==
    \E t \in Threads :
        /\ threads[t].pc = "returned"
        /\ LET p == threads[t].call.ret
               addrs == IF threads[t].call.op \in FfiBuildOps
                        THEN todo_free_request(heap, p) ELSE todo_free_result(heap, p)
               d == Dealloc(heap, addrs, FALSE)
           IN  /\ heap' = d.heap
               /\ badFree' = (badFree \/ d.bad)
               /\ requests' = requests \ {p}
               /\ results' = results \ {p}
        /\ threads' = [threads EXCEPT ![t] = Idle]
        /\ UNCHANGED <<client, mapper, db, script, lock, serving, last>>

\* ------------------------------------- actions: handlers of concurrent requests
\* tokio::sync::RwLock: read() is granted while no writer holds the lock,
\* write() while nobody holds it.
RwLock_read_ready(l) == l.writer = 0

\* A faulty lock that grants write() whoever holds it.
RwLock_write_ready_always(l) == TRUE

RwLock_write_ready(l) == l.writer = 0 /\ l.readers = {}

\* Dropping the guard of request r.
RwLock_drop(l, r) ==
    [writer |-> IF l.writer = r THEN 0 ELSE l.writer, readers |-> l.readers \ {r}]

\* Requests the handlers are given: the item a path names, the documents sent.
HandlerIds == {1}
HandlerCreateDocs == {[title |-> JVal(<<"Walk dog">>), completed |-> JAbsent]}
HandlerUpdateDocs ==
    {[title |-> JVal(<<"Walk cat">>), completed |-> JAbsent],
     [title |-> JAbsent, completed |-> JVal(TRUE)]}

HandlerFrame == UNCHANGED <<heap, client, requests, results, badFree, mapper, script, threads>>

\* A request reaches its handler: the extractors have run, and create_todo has
\* built the item with the identifier it drew, before any lock is asked for.
HandlerStart ==
    \E r \in Requests :
        /\ serving[r].pc = "idle"
        /\ \/ \E doc \in HandlerCreateDocs,
                 new_v4 \in ServerIds \ (DOMAIN db \cup {serving[q].todo.id : q \in Requests}) :
                  LET input == de_CreateTodo(doc)
                  IN  /\ input.ok
                      /\ serving' = [serving EXCEPT ![r] =
                             [NotServing EXCEPT !.pc = "waiting", !.op = "create_todo",
                                 !.todo = [id |-> new_v4, title |-> input.title,
                                           completed |-> input.completed]]]
           \/ \E id \in HandlerIds, op \in {"get_todo", "delete_todo"} :
                  serving' = [serving EXCEPT ![r] =
                      [NotServing EXCEPT !.pc = "waiting", !.op = op, !.id = id]]
           \/ \E id \in HandlerIds, doc \in HandlerUpdateDocs :
                  serving' = [serving EXCEPT ![r] =
                      [NotServing EXCEPT !.pc = "waiting", !.op = "update_todo", !.id = id,
                                         !.input = de_UpdateTodo(doc)]]
           \/ serving' = [serving EXCEPT ![r] =
                  [NotServing EXCEPT !.pc = "waiting", !.op = "list_todos"]]
        /\ UNCHANGED <<db, lock, last>>
        /\ HandlerFrame

\* db.read().await in list_todos and get_todo.
HandlerRead ==
    \E r \in Requests :
        /\ serving[r].pc = "waiting"
        /\ serving[r].op \in {"list_todos", "get_todo"}
        /\ RwLock_read_ready(lock)
        /\ lock' = [lock EXCEPT !.readers = @ \cup {r}]
        /\ serving' = [serving EXCEPT ![r].pc = "locked", ![r].snap = db]
        /\ UNCHANGED <<db, last>>
        /\ HandlerFrame

\* db.write().await in create_todo, update_todo and delete_todo.
HandlerWrite ==
    \E r \in Requests :
        /\ serving[r].pc = "waiting"
        /\ serving[r].op \in {"create_todo", "update_todo", "delete_todo"}
        /\ RwLock_write_ready(lock)
        /\ lock' = [lock EXCEPT !.writer = r]
        /\ serving' = [serving EXCEPT ![r].pc = "locked", ![r].snap = db]
        /\ UNCHANGED <<db, last>>
        /\ HandlerFrame

\* A handler returns: its guard is dropped and the response goes out.
Respond(r, status, body) ==
    /\ lock' = RwLock_drop(lock, r)
    /\ serving' = [serving EXCEPT ![r] = NotServing]
    /\ last' = [Call(serving[r].op) EXCEPT
           !.response = [status |-> status, headers |-> << >>, body |-> body]]
    /\ HandlerFrame

\* list_todos under the read guard: the values in the order the map yields.
HandlerList ==
    \E r \in Requests :
        /\ serving[r].pc = "locked" /\ serving[r].op = "list_todos"
        /\ \E order \in Orders(db) :
               Respond(r, STATUS_OK, list_todos(db, order).body)
        /\ UNCHANGED db

\* get_todo under the read guard: the lookup, and the first half of the clone.
HandlerGetLookup ==
    \E r \in Requests :
        /\ serving[r].pc = "locked" /\ serving[r].op = "get_todo"
        /\ IF serving[r].id \in DOMAIN db
           THEN /\ serving' = [serving EXCEPT ![r].pc = "cloning",
                       ![r].todo = [NoTodo EXCEPT !.id = db[serving[r].id].id,
                                                  !.title = db[serving[r].id].title]]
                /\ UNCHANGED <<lock, last>>
                /\ HandlerFrame
           ELSE Respond(r, STATUS_NOT_FOUND, EmptyBody)
        /\ UNCHANGED db

\* get_todo: the rest of the clone, and the response.
HandlerGetClone ==
    \E r \in Requests :
        /\ serving[r].pc = "cloning" /\ serving[r].op = "get_todo"
        /\ LET completed == IF serving[r].id \in DOMAIN db
                            THEN db[serving[r].id].completed ELSE FALSE
           IN  Respond(r, STATUS_OK,
                       ObjectBody(Json([serving[r].todo EXCEPT !.completed = completed])))
        /\ UNCHANGED db

\* create_todo under the write guard: the insert; the guard is a temporary.
HandlerInsert ==
    \E r \in Requests :
        /\ serving[r].pc = "locked" /\ serving[r].op = "create_todo"
        /\ db' = insert(db, serving[r].todo)
        /\ Respond(r, STATUS_CREATED, ObjectBody(Json(serving[r].todo)))

\* update_todo under the write guard: get_mut, and the early return of `?`.
HandlerUpdateLookup ==
    \E r \in Requests :
        /\ serving[r].pc = "locked" /\ serving[r].op = "update_todo"
        /\ IF serving[r].id \in DOMAIN db
           THEN /\ serving' = [serving EXCEPT ![r].pc = "found"]
                /\ UNCHANGED <<lock, last>>
                /\ HandlerFrame
           ELSE Respond(r, STATUS_NOT_FOUND, EmptyBody)
        /\ UNCHANGED db

\* update_todo: if let Some(title) = input.title { todo.title = title }
HandlerUpdateTitle ==
    \E r \in Requests :
        /\ serving[r].pc = "found"
        /\ db' = IF serving[r].input.title.some /\ serving[r].id \in DOMAIN db
                 THEN [db EXCEPT ![serving[r].id].title = serving[r].input.title.val]
                 ELSE db
        /\ serving' = [serving EXCEPT ![r].pc = "titled"]
        /\ UNCHANGED <<lock, last>>
        /\ HandlerFrame

\* update_todo: if let Some(completed) = input.completed { todo.completed = completed }
HandlerUpdateCompleted ==
    \E r \in Requests :
        /\ serving[r].pc = "titled"
        /\ db' = IF serving[r].input.completed.some /\ serving[r].id \in DOMAIN db
                 THEN [db EXCEPT ![serving[r].id].completed = serving[r].input.completed.val]
                 ELSE db
        /\ serving' = [serving EXCEPT ![r].pc = "cloning"]
        /\ UNCHANGED <<lock, last>>
        /\ HandlerFrame

\* update_todo: Ok(Json(todo.clone()))
HandlerUpdateClone ==
    \E r \in Requests :
        /\ serving[r].pc = "cloning" /\ serving[r].op = "update_todo"
        /\ IF serving[r].id \in DOMAIN db
           THEN Respond(r, STATUS_OK, ObjectBody(Json(db[serving[r].id])))
           ELSE Respond(r, STATUS_OK, ObjectBody(Json(NoTodo)))
        /\ UNCHANGED db

\* delete_todo under the write guard.
HandlerRemove ==
    \E r \in Requests :
        /\ serving[r].pc = "locked" /\ serving[r].op = "delete_todo"
        /\ db' = delete_todo(db, serving[r].id).db
        /\ Respond(r, delete_todo(db, serving[r].id).status, EmptyBody)

\* ----------------------------------------------------------- specifications
\* A C caller using the whole boundary.
Next ==
    \/ TodoClientNew \/ TodoClientFree
    \/ TodoBuildListTodos \/ TodoBuildGetTodo \/ TodoBuildCreateTodo
    \/ TodoBuildUpdateTodo \/ TodoBuildDeleteTodo
    \/ TodoParseListTodos \/ TodoParseGetTodo \/ TodoParseCreateTodo
    \/ TodoParseUpdateTodo \/ TodoParseDeleteTodo
    \/ TodoFreeRequest \/ TodoFreeResult \/ TodoFreeString

Spec == Init /\ [][Next]_vars

\* A C caller that builds requests and never parses a response.
NextBuild ==
    \/ TodoClientNew \/ TodoClientFree
    \/ TodoBuildListTodos \/ TodoBuildGetTodo \/ TodoBuildCreateTodo
    \/ TodoBuildUpdateTodo \/ TodoBuildDeleteTodo
    \/ TodoFreeRequest \/ TodoFreeResult \/ TodoFreeString

SpecBuild == Init /\ [][NextBuild]_vars

\* A C caller that parses responses and never builds a request.
NextParse ==
    \/ TodoClientNew \/ TodoClientFree
    \/ TodoParseListTodos \/ TodoParseGetTodo \/ TodoParseCreateTodo
    \/ TodoParseUpdateTodo \/ TodoParseDeleteTodo
    \/ TodoFreeRequest \/ TodoFreeResult \/ TodoFreeString

SpecParse == Init /\ [][NextParse]_vars

\* A Rust caller of the mapper.
NextCore ==
    \/ CoreNew
    \/ CoreBuildListTodos \/ CoreBuildGetTodo \/ CoreBuildCreateTodo
    \/ CoreBuildUpdateTodo \/ CoreBuildDeleteTodo
    \/ CoreParseListTodos \/ CoreParseGetTodo \/ CoreParseCreateTodo
    \/ CoreParseUpdateTodo \/ CoreParseDeleteTodo

SpecCore == Init /\ [][NextCore]_vars

\* Clients of the mock server, each sending one request at a time.
NextServer ==
    \/ ServerListTodos \/ ServerCreateTodo \/ ServerGetTodo
    \/ ServerUpdateTodo \/ ServerDeleteTodo

SpecServer == Init /\ [][NextServer]_vars

\* The lifecycle test, alone with a server that starts empty.
NextLifecycle ==
    \/ LifecycleCreate \/ LifecycleGet \/ LifecycleUpdateTitle
    \/ LifecycleUpdateCompleted \/ LifecycleDelete \/ LifecycleList

SpecLifecycle == Init /\ [][NextLifecycle]_vars

\* A C caller that creates an item and lists the collection: it builds the
\* create request, parses list answers, and releases what it was handed.
NextRelease ==
    \/ TodoClientNew \/ TodoClientFree
    \/ TodoBuildCreateTodo \/ TodoParseListTodos
    \/ TodoFreeRequest \/ TodoFreeResult

SpecRelease == Init /\ [][NextRelease]_vars

\* Threads of one C caller that share a handle and never destroy it.
NextThreads ==
    \/ TodoClientNew
    \/ ThreadBuild \/ ThreadParse \/ ThreadReturn \/ ThreadRelease

SpecThreads == Init /\ [][NextThreads]_vars

\* The server handling several requests at a time.
NextHandlers ==
    \/ HandlerStart \/ HandlerRead \/ HandlerWrite
    \/ HandlerList \/ HandlerGetLookup \/ HandlerGetClone
    \/ HandlerInsert
    \/ HandlerUpdateLookup \/ HandlerUpdateTitle \/ HandlerUpdateCompleted
    \/ HandlerUpdateClone
    \/ HandlerRemove

SpecHandlers == Init /\ [][NextHandlers]_vars

\* ------------------------------------------------------------------- claims
CoreParseOps ==
    {"TodoClient::parse_list_todos", "TodoClient::parse_get_todo",
     "TodoClient::parse_create_todo", "TodoClient::parse_update_todo",
     "TodoClient::parse_delete_todo"}
ReleaseOps == {"todo_client_free", "todo_free_request", "todo_free_result", "todo_free_string"}

\* The status each parse operation expects, as the claims state it.
ExpectedStatus(op) ==
    IF op \in {"TodoClient::parse_create_todo", "todo_parse_create_todo"} THEN 201
    ELSE IF op \in {"TodoClient::parse_delete_todo", "todo_parse_delete_todo"} THEN 204
    ELSE 200

\* The mapper's parse method of a given name.
CoreParse(op, self, response) ==
    IF op = "TodoClient::parse_list_todos" THEN parse_list_todos(self, response)
    ELSE IF op = "TodoClient::parse_get_todo" THEN parse_get_todo(self, response)
    ELSE IF op = "TodoClient::parse_create_todo" THEN parse_create_todo(self, response)
    ELSE IF op = "TodoClient::parse_update_todo" THEN parse_update_todo(self, response)
    ELSE parse_delete_todo(self, response)

\* A body is a JSON document of the shape an operation expects: an array of
\* items for list, one item for get, create and update.
WellFormed(op, body) ==
    /\ body.shape = (IF op = "TodoClient::parse_list_todos" THEN "array" ELSE "object")
    /\ \A i \in 1..Len(body.todos) :
           body.todos[i].id \in {UUID1, UUID2, UUID1_SIMPLE}

\* C1: once every request and every envelope the caller was handed has been
\* released through its release function, nothing the marshaling layer
\* allocated for them is still live, and nothing was freed twice.
C1_ReleasedMeansFreed ==
    (requests = {} /\ results = {}) => (DOMAIN heap \subseteq {client} /\ ~badFree)

C4_BodyParsedOnSuccess ==
    (last.op \in CoreParseOps /\ last.response.status = ExpectedStatus(last.op)) =>
        IF last.op = "TodoClient::parse_delete_todo"
        THEN last.core = ApiOk(<< >>)
        ELSE ~WellFormed(last.op, last.response.body)
                 => last.core.kind = "DeserializationError"

\* A list response with status 200 and a malformed body gave deserialize-error.
C4_Witness ==
    /\ last.op = "TodoClient::parse_list_todos"
    /\ last.response.status = 200
    /\ last.response.body = GarbageBody
    /\ last.core.kind = "DeserializationError"

\* The error code that corresponds to each kind of mapper error.
ErrorCodeOf(kind) ==
    IF kind = "NotFound" THEN "NotFound"
    ELSE IF kind = "HttpError" THEN "Http"
    ELSE IF kind = "DeserializationError" THEN "Deserialization"
    ELSE "Serialization"

\* C5: every parse function of the boundary returns a live envelope, never
\* null; a null handle or a null response gives the code NullArg, and a
\* mapper error gives the code that corresponds to its kind.
C5_ParseReturnsEnvelope ==
    last.op \in FfiParseOps =>
        /\ last.ret # NULL
        /\ last.ret \in DOMAIN heap
        /\ heap[last.ret].kind = "FfiTodoResult"
        /\ (last.client = NULL \/ last.response.ptr = "null")
               => heap[last.ret].error_code = "NullArg"
        /\ last.core.kind \in {"NotFound", "HttpError", "DeserializationError"}
               => heap[last.ret].error_code = ErrorCodeOf(last.core.kind)

\* The message of an error envelope is a live C string.
LiveMessage(e) ==
    /\ e.error_message # NULL
    /\ e.error_message \in DOMAIN heap
    /\ heap[e.error_message].kind = "CStringMsg"

\* The data of an envelope points to a live payload of the shape its tag names.
LivePayload(e) ==
    /\ e.data # NULL
    /\ e.data \in DOMAIN heap
    /\ \/ e.data_tag = "Todo" /\ heap[e.data].kind = "FfiTodo"
       \/ e.data_tag = "TodoList" /\ heap[e.data].kind = "FfiTodoList"

TagOf(op) ==
    IF op = "todo_parse_list_todos" THEN "TodoList"
    ELSE IF op = "todo_parse_delete_todo" THEN "None"
    ELSE "Todo"

\* C7: in every envelope the caller holds the tag is TodoList exactly when
\* data points to a list structure, Todo exactly when it points to a single
\* item and None exactly when it is null; a successful parse carries the tag
\* of its operation and every error the tag None.
C7_TagMatchesData ==
    /\ \A p \in results :
        /\ heap[p].data_tag \in {"TodoList", "Todo", "None"}
        /\ heap[p].data # NULL => heap[p].data \in DOMAIN heap
        /\ heap[p].data_tag = "TodoList"
               <=> (heap[p].data # NULL /\ heap[heap[p].data].kind = "FfiTodoList")
        /\ heap[p].data_tag = "Todo"
               <=> (heap[p].data # NULL /\ heap[heap[p].data].kind = "FfiTodo")
        /\ heap[p].data_tag = "None" <=> heap[p].data = NULL
    /\ (last.op \in FfiParseOps /\ last.ret \in results) =>
           heap[last.ret].data_tag
               = (IF heap[last.ret].error_code = "Ok" THEN TagOf(last.op) ELSE "None")

\* A list parse left the caller an envelope tagged TodoList over two items.
C7_Witness ==
    /\ last.op = "todo_parse_list_todos"
    /\ last.ret \in results
    /\ heap[last.ret].data_tag = "TodoList"
    /\ heap[heap[last.ret].data].len = 2

\* An argument of the last build call is invalid: a null handle, an
\* identifier that is null, not valid text or no identifier, a null title for
\* create, or a title that is not valid text.
InvalidBuildArgument ==
    \/ last.client = NULL
    \/ /\ last.op \in {"todo_build_get_todo", "todo_build_update_todo",
                       "todo_build_delete_todo"}
       /\ \/ last.id.ptr # "valid"
          \/ last.id.text \notin {UUID1, UUID2, UUID1_SIMPLE}
    \/ last.op = "todo_build_create_todo" /\ last.title.ptr = "null"
    \/ /\ last.op \in {"todo_build_create_todo", "todo_build_update_todo"}
       /\ last.title.ptr = "invalid_utf8"

\* C8: a build function called with an invalid argument returns null.
C8_BuildNullOnInvalid ==
    (last.op \in FfiBuildOps /\ InvalidBuildArgument) => last.ret = NULL

\* C9: todo_client_new returns a handle only for a base address that is valid
\* text, and null for a null pointer and for text that is not validly encoded.
C9_ClientNewNullOnInvalid ==
    last.op = "todo_client_new" => (last.ret # NULL <=> last.base_url.ptr = "valid")

\* C10: a release function called with null frees nothing and leaves the heap
\* and everything the caller holds as they were.
C10_NullReleaseIsNoOp ==
    [][(last'.op \in ReleaseOps /\ last'.ptr = NULL)
           => (last'.freed = << >>
               /\ UNCHANGED <<heap, client, requests, results, badFree>>)]_vars

\* todo_free_result was called with null while the caller held an envelope.
C10_Witness ==
    /\ last.op = "todo_free_result"
    /\ last.ptr = NULL
    /\ results # {}

\* The set of elements of a sequence.
Range(seq) == {seq[i] : i \in 1..Len(seq)}

\* The envelope at p is that of a successful list parse of two items.
TwoItemList(p) ==
    /\ p \in results
    /\ heap[p].error_code = "Ok"
    /\ heap[p].data_tag = "TodoList"
    /\ heap[heap[p].data].len = 2

\* The releases of a two-item list envelope: n distinct live allocations, the
\* envelope the last of them, and all of them gone afterwards.
ListReleases(n) ==
    (last'.op = "todo_free_result" /\ TwoItemList(last'.ptr))
        => /\ Len(last'.freed) = n
           /\ Cardinality(Range(last'.freed)) = n
           /\ Range(last'.freed) \subseteq DOMAIN heap
           /\ last'.freed[Len(last'.freed)] = last'.ptr
           /\ DOMAIN heap' = DOMAIN heap \ Range(last'.freed)

\* C11, as amended: releasing the envelope of a successful two-item list parse
\* performs exactly 7 releases: the two strings of each item, the item array,
\* the list structure, then the envelope.
C11_ListReleaseCount == [][ListReleases(7)]_vars

\* The last call was a release that freed seven allocations.
C11_Witness == last.op = "todo_free_result" /\ Len(last.freed) = 7

\* C11 as stated: the release of a two-item list envelope performs 5 releases.
C11_FiveReleases == [][ListReleases(5)]_vars

\* C12: a fault raised inside a boundary function never leaves it.  A build
\* function that caught one returns null; a parse function that caught one
\* returns a live envelope with code Panic, null data and the tag None.
C12_FaultIntercepted ==
    /\ last.fault # "escaped"
    /\ (last.op \in FfiBuildOps /\ last.fault = "caught") => last.ret = NULL
    /\ (last.op \in FfiParseOps /\ last.fault = "caught") =>
           /\ last.ret \in results
           /\ heap[last.ret].error_code = "Panic"
           /\ heap[last.ret].data = NULL
           /\ heap[last.ret].data_tag = "None"
           /\ LiveMessage(heap[last.ret])

\* A parse call raised a fault, and the caller holds the Panic envelope.
C12_Witness ==
    /\ last.op \in FfiParseOps
    /\ last.fault = "caught"
    /\ last.ret \in results
    /\ heap[last.ret].error_code = "Panic"

\* C13: a mapper constructed from a base URL followed by n '/' builds the same
\* list path as a mapper constructed from the base URL alone.
C13_TrailingSlashesIgnored ==
    last.op = "TodoClient::build_list_todos" =>
        /\ last.request.path = build_list_todos(TodoClient_new(mapper.stem)).path
        /\ last.request.path = mapper.stem \o <<"/todos">>

\* A list request was built by a mapper given two or more trailing '/'.
C13_Witness ==
    /\ last.op = "TodoClient::build_list_todos"
    /\ mapper.slashes >= 2
    /\ mapper.stem # EmptyText

\* The keys of a JSON body, as a set.
Keys(body) == Range(body.keys)

\* C15: the update body has a key for a field exactly when the input has the
\* field, and then with the input's value; an absent field has no key at all.
C15_UpdateBodyKeys ==
    last.op = "TodoClient::build_update_todo" =>
        LET body == last.request.body IN
        /\ body.some
        /\ Len(body.keys) = Cardinality(Keys(body))
        /\ Keys(body) \subseteq {"title", "completed"}
        /\ "title" \in Keys(body) <=> last.title.ptr = "valid"
        /\ "completed" \in Keys(body) <=> last.completed \in {0, 1}
        /\ last.title.ptr = "valid" => body.title = last.title.text
        /\ last.completed \in {0, 1} => (body.completed <=> last.completed = 1)

\* An update with a title and no completed was built: its only key is title.
C15_Witness ==
    /\ last.op = "TodoClient::build_update_todo"
    /\ last.title = CText(<<"Buy milk">>)
    /\ last.completed = -1
    /\ last.request.body.keys = <<"title">>

\* The rows of the wire-contract table.
ItemOps == {"todo_build_get_todo", "todo_build_update_todo", "todo_build_delete_todo"}
BodyOps == {"todo_build_create_todo", "todo_build_update_todo"}
ContractMethod(op) ==
    CASE op = "todo_build_list_todos" -> "Get"
      [] op = "todo_build_get_todo" -> "Get"
      [] op = "todo_build_create_todo" -> "Post"
      [] op = "todo_build_update_todo" -> "Put"
      [] op = "todo_build_delete_todo" -> "Delete"
\* The hyphenated form of an identifier given in either accepted form.
CanonicalId(text) == IF text = UUID1_SIMPLE THEN UUID1 ELSE text
ContractPath(op, base, id) ==
    IF op \in ItemOps THEN base \o <<"/todos/">> \o CanonicalId(id) ELSE base \o <<"/todos">>

\* C14: a request that a build function returns is the row of the wire-contract
\* table for that function: method, path under the mapper's base URL with the
\* hyphenated identifier, a JSON body and the content-type header for create
\* and update only.  In the flat request the body pointer is null exactly when
\* there is no body and the headers pointer is null exactly when headers_len is 0.
C14_WireContract ==
    (last.op \in FfiBuildOps /\ last.ret # NULL) =>
        LET req == heap[last.ret]
            base == heap[last.client].inner.base_url
        IN  /\ req.method = ContractMethod(last.op)
            /\ heap[req.path] = CStringCell(ContractPath(last.op, base, last.id.text))
            /\ req.body = NULL <=> last.op \notin BodyOps
            /\ req.headers_len = (IF last.op \in BodyOps THEN 1 ELSE 0)
            /\ req.headers = NULL <=> req.headers_len = 0
            /\ last.op \in BodyOps =>
                   /\ heap[req.body].kind = "CStringJson"
                   /\ heap[req.body].json.some
                   /\ Len(heap[req.headers].hdrs) = 1
                   /\ heap[heap[req.headers].hdrs[1].key] = CStringCell(<<"content-type">>)
                   /\ heap[heap[req.headers].hdrs[1].value] =
                          CStringCell(<<"application/json">>)

\* An update request was built from an identifier given without hyphens.
C14_Witness ==
    /\ last.op = "todo_build_update_todo"
    /\ last.id = CText(UUID1_SIMPLE)
    /\ last.ret \in requests
    /\ heap[heap[last.ret].path].str = heap[last.client].inner.base_url \o <<"/todos/">> \o UUID1

\* C16: in todo_build_update_todo the completed argument 0 puts completed=false
\* in the body, 1 puts completed=true, and -1 or any other value leaves the
\* field out while the request is still built; a null title leaves the title
\* out and a non-null one puts it in.
C16_UpdateTriState ==
    (/\ last.op = "todo_build_update_todo"
     /\ last.client # NULL
     /\ last.id.ptr = "valid"
     /\ Uuid_parse_str(last.id.text).ok) =>
        /\ last.ret \in requests
        /\ heap[last.ret].body # NULL
        /\ LET body == heap[heap[last.ret].body].json IN
           /\ "completed" \in Keys(body) <=> last.completed \in {0, 1}
           /\ last.completed = 0 => ~body.completed
           /\ last.completed = 1 => body.completed
           /\ "title" \in Keys(body) <=> last.title.ptr # "null"

\* An update was built with a completed argument that is none of -1, 0, 1.
C16_Witness ==
    /\ last.op = "todo_build_update_todo"
    /\ last.completed = 2
    /\ last.ret \in requests
    /\ heap[heap[last.ret].body].json.keys = << >>

\* C17: no create build operation, of the mapper or of the boundary, yields a
\* request whose body carries an empty title.
C17_CreateTitleNonEmpty ==
    /\ last.op = "TodoClient::build_create_todo" =>
           last.request.body.title # EmptyText
    /\ (last.op = "todo_build_create_todo" /\ last.ret # NULL) =>
           heap[heap[last.ret].body].json.title # EmptyText

\* C18: against a server that starts empty, create, get, update of the title,
\* update of completed, delete, get, delete and list give in turn: the created
\* item; an item equal to it; the item with the new title and completed as it
\* was; the item with the new completed and the title of the step before;
\* success; not-found; not-found; the empty list.
C18_Lifecycle ==
    LET s == script.seen
        n == Len(script.seen)
    IN  /\ n >= 1 => (s[1].kind = "Ok" /\ Len(s[1].todos) = 1)
        /\ n >= 2 => s[2] = ApiOk(<<Created>>)
        /\ n >= 3 => /\ s[3].kind = "Ok"
                     /\ s[3].todos[1].id = Created.id
                     /\ s[3].todos[1].title = script.sent[3].body.title
                     /\ s[3].todos[1].completed = Created.completed
        /\ n >= 4 => /\ s[4].kind = "Ok"
                     /\ s[4].todos[1].id = Created.id
                     /\ s[4].todos[1].title = s[3].todos[1].title
                     /\ s[4].todos[1].completed = script.sent[4].body.completed
        /\ n >= 5 => s[5] = ApiOk(<< >>)
        /\ n >= 6 => s[6] = ApiNotFound
        /\ n >= 7 => s[7] = ApiNotFound
        /\ n >= 8 => s[8] = ApiOk(<< >>)

\* The lifecycle ran to its end, and its two updates each changed the item.
C18_Witness ==
    /\ script.pc = 8
    /\ Len(script.seen) = 8
    /\ script.seen[3].todos[1].title # Created.title
    /\ script.seen[4].todos[1].completed # Created.completed
    /\ db = EmptyDb

\* The identifier an update call named in its path.
UpdatedId(call) == Uuid_parse_str(call.id.text).uuid

\* C19: an update of a stored item changes the fields that the body carries
\* and nothing else: a missing title leaves the title, a missing completed
\* leaves completed, the identifier and every other item stay as they were.
\* An update of an identifier that is not stored answers 404 and changes nothing.
C19_UpdateFrame ==
    [][last'.op = "update_todo" =>
          LET id == UpdatedId(last')
              doc == last'.doc
          IN  IF id \in DOMAIN db
              THEN /\ last'.response.status = STATUS_OK
                   /\ DOMAIN db' = DOMAIN db
                   /\ \A k \in DOMAIN db \ {id} : db'[k] = db[k]
                   /\ db'[id].id = id
                   /\ doc.title.k = "absent" => db'[id].title = db[id].title
                   /\ doc.title.k = "value" => db'[id].title = doc.title.v
                   /\ doc.completed.k = "absent" => db'[id].completed = db[id].completed
                   /\ doc.completed.k = "value" => db'[id].completed = doc.completed.v
              ELSE /\ last'.response.status = STATUS_NOT_FOUND
                   /\ db' = db]_vars

\* An update that carried completed alone changed one of two stored items.
C19_Witness ==
    /\ last.op = "update_todo"
    /\ last.response.status = STATUS_OK
    /\ last.doc.title.k = "absent"
    /\ last.doc.completed = JVal(TRUE)
    /\ DOMAIN db = {1, 2}
    /\ db[UpdatedId(last)].completed
    /\ db[UpdatedId(last)].title = <<"Walk dog">>

\* The document with its null members left out.
WithoutNulls(doc) ==
    [title |-> IF doc.title.k = "null" THEN JAbsent ELSE doc.title,
     completed |-> IF doc.completed.k = "null" THEN JAbsent ELSE doc.completed]

\* C20: an update whose body carries a member as null is not handled as the
\* update that leaves the member out: for a stored item, the store or the
\* response differs between the two.
C20_NullIsNotAbsent ==
    [][(/\ last'.op = "update_todo"
        /\ UpdatedId(last') \in DOMAIN db
        /\ last'.doc # WithoutNulls(last'.doc)) =>
          LET omitted == app(db, [method |-> "Put",
                                  path |-> HOST \o <<"/todos/">> \o last'.id.text,
                                  doc |-> WithoutNulls(last'.doc)], 0, << >>)
          IN  \/ db' # omitted.db
              \/ last'.response.status # omitted.status
              \/ last'.response.body # omitted.body]_vars

\* The nil identifier, which no parse of a stored identifier yields.
NIL == 0

\* C21: the item parsed from the answer to a built create request has the
\* title and completed of the input and an identifier that the input did not
\* carry and that is not nil; while the item is stored it is stored under that
\* identifier, and the get that follows returns it.
C21_CreateRoundTrip ==
    /\ Len(script.seen) >= 1 =>
           /\ script.seen[1].kind = "Ok"
           /\ Created.title = script.sent[1].body.title
           /\ Created.completed = script.sent[1].body.completed
           /\ Keys(script.sent[1].body) = {"title", "completed"}
           /\ Created.id # NIL
    /\ script.pc \in 1..4 =>
           /\ DOMAIN db = {Created.id}
           /\ db[Created.id].id = Created.id
    /\ script.pc \in 1..2 => db[Created.id] = Created
    /\ Len(script.seen) >= 2 => script.seen[2] = ApiOk(<<Created>>)

\* A completed item was created and then fetched under its identifier.
C21_Witness ==
    /\ script.pc = 2
    /\ Created.completed
    /\ Created.title = <<"Buy milk">>
    /\ script.seen[2].todos[1].id = Created.id

\* What a pointer leads to, with the pointers inside replaced by what they
\* lead to: two values are equal for the caller when these are.
NullCell == [kind |-> "null"]
Deref(h, p) == IF p = NULL THEN NullCell ELSE h[p]
DeepTodo(h, t) ==
    [id |-> Deref(h, t.id), title |-> Deref(h, t.title), completed |-> t.completed]
DeepRequest(h, p) ==
    IF p = NULL THEN NullCell
    ELSE [kind |-> h[p].kind, method |-> h[p].method, path |-> Deref(h, h[p].path),
          body |-> Deref(h, h[p].body), headers_len |-> h[p].headers_len,
          headers |-> IF h[p].headers = NULL THEN << >>
                      ELSE [i \in DOMAIN h[h[p].headers].hdrs |->
                               [key |-> Deref(h, h[h[p].headers].hdrs[i].key),
                                value |-> Deref(h, h[h[p].headers].hdrs[i].value)]]]
DeepResult(h, p) ==
    IF p = NULL THEN NullCell
    ELSE [kind |-> h[p].kind, error_code |-> h[p].error_code,
          error_message |-> Deref(h, h[p].error_message),
          http_status |-> h[p].http_status, data_tag |-> h[p].data_tag,
          data |-> IF h[p].data = NULL THEN NullCell
                   ELSE IF h[h[p].data].kind = "FfiTodo"
                        THEN [kind |-> "FfiTodo", len |-> 1,
                              items |-> <<DeepTodo(h, h[h[p].data])>>]
                   ELSE [kind |-> "FfiTodoList", len |-> h[h[p].data].len,
                         items |-> IF h[h[p].data].items = NULL THEN << >>
                                   ELSE [i \in DOMAIN h[h[h[p].data].items].elems |->
                                            DeepTodo(h, h[h[h[p].data].items].elems[i])]]]

\* The result of the call when nothing but its handle is allocated.
HandleOnly(h, c) == InCall([a \in {c} \ {NULL} |-> h[a]])
Alone(h, call) ==
    IF call.op \in FfiBuildOps
    THEN LET r == FfiBuild(HandleOnly(h, call.client), call) IN DeepRequest(r.heap, r.ret)
    ELSE LET r == FfiParse(HandleOnly(h, call.client), call) IN DeepResult(r.heap, r.ret)

\* What the call returned, as the caller sees it.
Returned(h, call) ==
    IF call.op \in FfiBuildOps THEN DeepRequest(h, call.ret) ELSE DeepResult(h, call.ret)

\* A build or parse call leaves the handle and every allocation that was live
\* before it as they were.
CallKeepsMemory ==
    last'.op \in FfiBuildOps \cup FfiParseOps =>
        /\ client' = client
        /\ \A a \in DOMAIN heap : a \in DOMAIN heap' /\ heap'[a] = heap[a]

\* C22: build and parse calls are stateless.  A call changes neither the
\* handle nor any allocation made before it, and what it returns is what the
\* same handle and arguments return when nothing else was ever built, parsed
\* or released.
C22_Stateless ==
    /\ [](last.op \in FfiBuildOps \cup FfiParseOps => Returned(heap, last) = Alone(heap, last))
    /\ [][CallKeepsMemory]_vars

\* A call on a live handle returned a request into a heap that an earlier
\* call had left an allocation in.
C22_Witness ==
    /\ last.op \in FfiBuildOps
    /\ last.client # NULL
    /\ last.ret \in requests
    /\ Leaked(heap, client, requests, results) # {}

\* The allocations that make up what a call returned.
OwnedBy(h, call) ==
    IF call.ret = NULL THEN {}
    ELSE IF call.op \in FfiBuildOps THEN OwnedByRequest(h, call.ret)
    ELSE OwnedByResult(h, call.ret)

\* C23: calls that several threads make on one live handle at the same time
\* do not disturb each other.  No call writes what another call reads or
\* writes, each call returns what it returns when it runs alone, and what one
\* call returned shares no allocation with what another returned.
C23_ConcurrentCallsSafe ==
    \A t \in Threads :
        threads[t].pc # "idle" =>
            /\ Returned(heap, threads[t].call) = Alone(heap, threads[t].call)
            /\ threads[t].writes = OwnedBy(heap, threads[t].call)
            /\ \A u \in Threads \ {t} :
                   threads[u].pc # "idle" =>
                       /\ threads[t].writes
                              \cap (threads[u].reads \cup threads[u].writes) = {}
                       /\ OwnedBy(heap, threads[t].call)
                              \cap OwnedBy(heap, threads[u].call) = {}

\* Two threads are inside a call at once, one building and one parsing, and
\* each call has made its allocations.
C23_Witness ==
    \E t, u \in Threads :
        /\ threads[t].pc = "running"
        /\ threads[u].pc = "running"
        /\ threads[t].call.op \in FfiBuildOps
        /\ threads[u].call.op \in FfiParseOps
        /\ threads[t].call.ret # NULL
        /\ threads[u].call.ret # NULL

\* C24: a parse call that faults while it converts a parsed payload leaves,
\* once its Panic envelope is returned, no allocation of its own outside the
\* envelope: the allocations that nothing the caller holds owns are those
\* there were before the call.
C24_FaultLeavesNoAllocation ==
    [][(last'.op \in FfiParseOps /\ last'.fault = "caught") =>
           Leaked(heap', client', requests', results')
               \subseteq Leaked(heap, client, requests, results)]_vars


\* The allocations a cell points to.
Refs(h, a) ==
    LET c == h[a]
    IN  (CASE c.kind = "FfiTodoResult" -> {c.error_message, c.data}
           [] c.kind = "FfiTodo" -> {c.id, c.title}
           [] c.kind = "FfiTodoList" -> {c.items}
           [] c.kind = "Vec<FfiTodo>" ->
                  UNION {{c.elems[i].id, c.elems[i].title} : i \in DOMAIN c.elems}
           [] c.kind = "FfiHttpRequest" -> {c.path, c.body, c.headers}
           [] c.kind = "Vec<FfiHeader>" ->
                  UNION {{c.hdrs[i].key, c.hdrs[i].value} : i \in DOMAIN c.hdrs}
           [] OTHER -> {}) \ {NULL}

\* A release order in which every allocation is live when it is freed, none
\* is freed twice, and an allocation is freed before the one that points to
\* it, so that no pointer is read out of freed memory.
BottomUp(h, freed) ==
    /\ \A i \in DOMAIN freed : freed[i] \in DOMAIN h
    /\ \A i, j \in DOMAIN freed : i # j => freed[i] # freed[j]
    /\ \A i, j \in DOMAIN freed : freed[i] \in Refs(h, freed[j]) => i < j

\* C25: todo_free_request and todo_free_result free what the value owns from
\* the bottom up: strings before the array that holds their pointers, the
\* item array before the list structure, and the request or envelope itself
\* last; everything the value owns is freed.
C25_ReleaseBottomUp ==
    [][last'.op \in {"todo_free_request", "todo_free_result"} /\ last'.ptr # NULL =>
           /\ BottomUp(heap, last'.freed)
           /\ last'.freed[Len(last'.freed)] = last'.ptr
           /\ Range(last'.freed) =
                  IF last'.op = "todo_free_request"
                  THEN OwnedByRequest(heap, last'.ptr)
                  ELSE OwnedByResult(heap, last'.ptr)]_vars

\* The last call released a request with a body and one header: six frees.
C25_Witness == last.op = "todo_free_request" /\ Len(last.freed) = 6


\* C28: every array handed across the boundary is released with the
\* dimensions it was allocated with: the count stored beside the array
\* pointer (len, headers_len) equals the number of elements and the capacity
\* the array was allocated with.
C28_ArrayDimensions ==
    [][(last'.op \in FfiBuildOps \cup FfiParseOps /\ ArrayOf(heap', last'.ret) # NULL) =>
           /\ StoredLen(heap', last'.ret) = ArrayLen(heap', ArrayOf(heap', last'.ret))
           /\ StoredLen(heap', last'.ret) = last'.cap]_vars


\* C26: every http-error a parse operation produces carries a status that is
\* not a 2xx status and is not 404.
C26_HttpErrorStatus ==
    (last.op \in CoreParseOps /\ last.core.kind = "HttpError") =>
        /\ last.core.status \notin 200..299
        /\ last.core.status # STATUS_NOT_FOUND


\* C27: the envelope built from a mapper error keeps the error's kind and
\* payload.  Not-found gives the code NotFound with http_status 404;
\* http-error gives the code Http, the literal status and a message made of
\* the status and the raw body; deserialize-error gives the code
\* Deserialization, http_status 0 and a message that ends with the parser's
\* description; a success envelope carries http_status 0.
C27_ErrorPreserved ==
    (last.op \in FfiParseOps /\ last.ret \in DOMAIN heap) =>
        LET e == heap[last.ret]
            msg == Deref(heap, e.error_message)
        IN  /\ last.core.kind = "NotFound"
                => e.error_code = "NotFound" /\ e.http_status = STATUS_NOT_FOUND
            /\ last.core.kind = "HttpError"
                => /\ e.error_code = "Http"
                   /\ e.http_status = last.core.status
                   /\ msg = MsgCell(Message(<<"HTTP {status}: {body}">>,
                                            last.core.status, last.core.body))
            /\ last.core.kind = "DeserializationError"
                => /\ e.error_code = "Deserialization"
                   /\ e.http_status = 0
                   /\ msg = MsgCell(Message(<<"deserialization failed: ">> \o last.core.msg,
                                            0, EmptyBody))
            /\ e.error_code = "Ok" => e.http_status = 0


\* The cells a held request or envelope owns, and what the caller sees of it.
OwnedByHeld(h, p) == IF p \in requests THEN OwnedByRequest(h, p) ELSE OwnedByResult(h, p)
DeepHeld(h, p) == IF p \in requests THEN DeepRequest(h, p) ELSE DeepResult(h, p)

\* A step of the caller leaves the values it keeps holding as they were;
\* destroying the handle frees the handle alone; releasing a value frees what
\* that value owns, all of it live, and nothing else.
HeldValuesKept ==
    /\ \A p \in (requests \cup results) \cap (requests' \cup results') :
           /\ OwnedByHeld(heap, p) \subseteq DOMAIN heap'
           /\ OwnedByHeld(heap', p) = OwnedByHeld(heap, p)
           /\ DeepHeld(heap', p) = DeepHeld(heap, p)
    /\ (last'.op = "todo_client_free" /\ last'.ptr # NULL) => last'.freed = <<last'.ptr>>
    /\ (last'.op \in {"todo_free_request", "todo_free_result"} /\ last'.ptr # NULL) =>
           /\ Range(last'.freed) = OwnedByHeld(heap, last'.ptr)
           /\ Len(last'.freed) = Cardinality(OwnedByHeld(heap, last'.ptr))

Atomic(s, order) ==
    IF s.op = "list_todos" THEN list_todos(s.snap, order)
    ELSE IF s.op = "create_todo"
         THEN create_todo(s.snap, [title |-> s.todo.title, completed |-> s.todo.completed],
                          s.todo.id)
    ELSE IF s.op = "get_todo" THEN get_todo(s.snap, s.id)
    ELSE IF s.op = "update_todo" THEN update_todo(s.snap, s.id, s.input)
    ELSE delete_todo(s.snap, s.id)

\* Request r returns in this step.
Returns(r) == serving[r].pc # "idle" /\ serving'[r].pc = "idle"

\* A handler that returns leaves the store and gives the response that the
\* same handler, run alone on the store it found when granted the lock, gives.
HandlerAtomic ==
    \A r \in Requests : Returns(r) =>
        \E order \in Orders(serving[r].snap) :
            LET a == Atomic(serving[r], order)
            IN  /\ db' = a.db
                /\ last'.response = [status |-> a.status, headers |-> << >>, body |-> a.body]

\* An update that returns 200 leaves each field it did not set as it was when
\* the update was granted the lock, so what another update wrote is kept, and
\* answers with the item as stored; a get or update answers 200 with a whole
\* stored item or 404; after a delete answers 204 the item is not stored.
HandlerOutcomes ==
    \A r \in Requests : Returns(r) =>
        LET s == serving[r]
            status == last'.response.status
        IN  /\ (s.op = "update_todo" /\ status = STATUS_OK) =>
                   /\ s.id \in DOMAIN db' /\ s.id \in DOMAIN s.snap
                   /\ ~s.input.title.some => db'[s.id].title = s.snap[s.id].title
                   /\ s.input.title.some => db'[s.id].title = s.input.title.val
                   /\ ~s.input.completed.some => db'[s.id].completed = s.snap[s.id].completed
                   /\ s.input.completed.some => db'[s.id].completed = s.input.completed.val
                   /\ last'.response.body = ObjectBody(Json(db'[s.id]))
            /\ s.op \in {"get_todo", "update_todo"} =>
                   \/ status = STATUS_NOT_FOUND /\ s.id \notin DOMAIN db
                   \/ /\ status = STATUS_OK
                      /\ s.id \in DOMAIN db'
                      /\ last'.response.body = ObjectBody(Json(db'[s.id]))
            /\ (s.op = "delete_todo" /\ status = STATUS_NO_CONTENT) => s.id \notin DOMAIN db'

\* C30: the handlers are atomic with respect to the store whatever the
\* interleaving of the requests.  In every state, also while a handler is at
\* work, the key of each stored item is its id; every handler leaves the
\* store and answers as if it had run alone; an update keeps the fields it
\* does not set, so two updates of different fields both take effect; a get or
\* update next to a delete answers with a whole item or 404, and the item is
\* gone once delete has answered 204.
C30_HandlersAtomic ==
    /\ [](\A k \in DOMAIN db : db[k].id = k)
    /\ [][HandlerAtomic /\ HandlerOutcomes]_vars

\* An update holds the write lock, has written the title and not yet the
\* completed flag, while a delete of the same item waits for the lock.
C30_Witness ==
    \E r, q \in Requests :
        /\ serving[r].op = "update_todo" /\ serving[r].pc = "titled"
        /\ serving[r].input.title.some
        /\ serving[q].op = "delete_todo" /\ serving[q].pc = "waiting"
        /\ serving[q].id = serving[r].id
        /\ serving[r].id \in DOMAIN db

====
